---------------------------- MODULE Spec2Model ----------------------------
(***************************************************************************)
(* A model of the EBM invoice validation engine of soraai-chat             *)
(* (src/src/lib/ebm): the PDF QR decoder (qrDecoder.ts), the template      *)
(* matcher, the QR/text reconciliation and the validation run              *)
(* (template.ts, textExtractor.ts), and of the search agent that runs it   *)
(* (src/src/lib/search/ebmValidatorAgent.ts).                              *)
(*                                                                         *)
(* The module holds several specifications over one set of variables.      *)
(* Each specification drives one group of variables and leaves the other   *)
(* groups at their idle values:                                            *)
(*   SpecQr        decodeQrCodesFromPdf, one page/scale attempt at a time  *)
(*   SpecCompare   buildComparison on one (QR value, text field) pair      *)
(*   SpecMatch     EbmTemplate.matchesInput on one template and one text   *)
(*   SpecValidate  validateEbmInvoice, one awaited call at a time          *)
(*   SpecValidateLive  the same with fair scheduling of the run's own steps *)
(*   SpecCache     loadEbmTemplates and resetTemplateCache, several callers *)
(*   SpecParse     parseEbmQrPayload on one QR text in one encoding         *)
(*   SpecAgent     EbmValidatorAgent.searchAndAnswer and its awaiting caller *)
(*   SpecExtract   extractField on one template field                       *)
(*                                                                         *)
(* Strings whose characters matter are sequences of one-character strings. *)
(* Amounts are fixed-point numbers counted in tenths of a currency unit    *)
(* (1000.6 is 10006); IEEE-754 rounding of the subtraction is not          *)
(* modelled.                                                               *)
(***************************************************************************)
EXTENDS Integers, Sequences, FiniteSets, TLC

VARIABLES
    \* ---- decodeQrCodesFromPdf (qrDecoder.ts) ----
    qrPc,          \* position of the decoder: idle, open, render, decode, finish, resolved, rejected
    numPages,      \* doc.numPages
    maxPages,      \* options.maxPages ?? doc.numPages
    unique,        \* options.unique ?? true
    scales,        \* the scale list in use (tenths)
    pageIndex,     \* loop variable of the page loop
    scaleIdx,      \* index into scales of the scale loop
    seen,          \* Set<string> of texts already recorded
    codes,         \* PdfQrDecodedCode[]
    cleanup,       \* TRUE while the attempt holds a cleanup callback (rendered.cleanup)
    liveCanvases,  \* canvases created by canvasFactory.create and not yet destroyed
    decodedPages,  \* history: pages on which some attempt decoded a text
    attempts,      \* history: number of page/scale attempts started
    lastOutcome,   \* history: how the last finished attempt ended
    \* ---- buildComparison (template.ts) ----
    cmpPc,         \* "idle", "call" (arguments chosen) or "done" (comparison returned)
    cmpKey,        \* qrKey
    cmpQrValue,    \* qrValue
    cmpTextField,  \* textField
    comparison,    \* the EbmFieldComparison returned
    \* ---- EbmTemplate (template.ts) ----
    tmPc,            \* "idle", "loaded" (template constructed) or "done" (matchesInput returned)
    definition,      \* EbmTemplate.definition: keywords, excludeKeywords, options
    keywords,        \* EbmTemplate.keywords (transformed by the constructor)
    excludeKeywords, \* EbmTemplate.excludeKeywords (transformed by the constructor)
    content,         \* the argument of matchesInput
    matched,         \* the value matchesInput returned
    preparedContent, \* what prepareInput(content) returned inside matchesInput (history)
    \* ---- validateEbmInvoice (validator.ts) ----
    runPc,           \* the statement the run is at; "returned" or "threw" at its end
    fileExtension,   \* file.fileExtension
    errors,          \* errors: string[]
    snapshot,        \* the text snapshot, undefined when it could not be loaded
    candidates,      \* the templates selectTemplateForSnapshot scanned, in load order
    templates,       \* the selected template, undefined when none matched
    extraction,      \* the EbmTextExtraction, undefined without snapshot or template
    qrDetections,    \* the codes decodeQrCodesFromPdf returned
    parsedPayload,   \* what parseEbmQrPayload returned (kept for reference)
    enrichment,      \* what attemptRraQrEnrichment returned
    qrPayload,       \* the payload of the run
    comparisons,     \* result.matches
    summary,         \* result.summary
    failures,        \* the stages of the run that have failed (history)
    \* ---- loadEbmTemplates / resetTemplateCache (template.ts) ----
    cachedTemplates, \* the module variable cachedTemplates, undefined for null
    loadPc,          \* where each caller of loadEbmTemplates stands
    received,        \* the list each caller's last call resolved to
    callsMade,       \* how many calls each caller has made
    directoryReads,  \* loads begun since the last reset that have not failed (history)
    listsBuilt,      \* how many template lists have been built (history)
    sinceReset,      \* the callers whose current call began after the last reset (history)
    resets,          \* calls of resetTemplateCache (history)
    \* ---- parseEbmQrPayload on one QR text (template.ts) ----
    prPc,            \* "start" before the call, "done" after it
    prSource,        \* what the QR text was written from (history)
    prText,          \* the argument raw
    prPayload,       \* the EbmQrPayload returned
    \* ---- extractField on one template field (textExtractor.ts) ----
    exPc,            \* "start" before the call, "done" after it
    exConfig,        \* the EbmTemplateFieldConfig: type and group
    exPatterns,      \* config.regex: for each pattern, what it finds on each page
    exField,         \* the EbmExtractedField returned
    \* ---- EbmValidatorAgent.searchAndAnswer (ebmValidatorAgent.ts) ----
    agPc,            \* position of the run: call, queued, resolve, validate, narrate, rejected, done
    fileIds,         \* the argument fileIds
    fileIndex,       \* how many of the files resolvePdfAttachment has checked
    caller,          \* the caller: calling, awaiting the returned promise, listening
    microtasks,      \* the microtask queue, oldest first
    emitted,         \* the events the emitter has emitted, in order
    observed,        \* the events the caller's listeners have received, in order
    agOutcome,       \* the headline of the outcome validateEbmInvoice resolved to
    llmResponse      \* the content llm.invoke resolved to, or its rejection

qrVars == <<qrPc, numPages, maxPages, unique, scales, pageIndex, scaleIdx, seen,
            codes, cleanup, liveCanvases, decodedPages, attempts, lastOutcome>>

cmpVars == <<cmpPc, cmpKey, cmpQrValue, cmpTextField, comparison>>
tmVars == <<tmPc, definition, keywords, excludeKeywords, content, matched, preparedContent>>
vlVars == <<runPc, fileExtension, errors, snapshot, candidates, templates, extraction, qrDetections,
            parsedPayload, enrichment, qrPayload, comparisons, summary, failures>>
exVars == <<exPc, exConfig, exPatterns, exField>>
prVars == <<prPc, prSource, prText, prPayload>>
agVars == <<agPc, fileIds, fileIndex, caller, microtasks, emitted, observed, agOutcome,
            llmResponse>>
chVars == <<cachedTemplates, loadPc, received, callsMade, directoryReads, listsBuilt,
            sinceReset, resets>>

-----------------------------------------------------------------------------
(* Bounds of the model *)

\* pages of the PDF documents explored
MaxPages == 2
\* longest caller-supplied scale list explored (the default list has six)
MaxScales == 2
\* longest document text explored by the template matcher
MaxTextLen == 3
\* longest keyword of a template explored
MaxKeywordLen == 2
\* most keywords in a keyword list of a template explored
MaxKeywords == 1
\* most key/value pairs in a decoded QR text explored
MaxQrPairs == 2
\* most values a receipt page states in the enrichments explored
MaxReceiptValues == 2
\* amounts explored lie 0 .. MaxDelta tenths above 1000.0 (and above 0.0)
MaxDelta == 12
\* callers of loadEbmTemplates that can be in flight together
NumCallers == 2
\* most calls of loadEbmTemplates one caller makes
MaxCalls == 2
\* most calls of resetTemplateCache explored
MaxResets == 1
\* most tokens of a hand-written 'key:value' text explored
MaxTokenPairs == 2
\* most matches a pattern finds on one page of the documents explored
MaxMatches == 2
\* most file ids passed to searchAndAnswer
MaxFiles == 3

-----------------------------------------------------------------------------
(* Values shared by the groups *)

Null == "null"

\* const DEFAULT_SCALES = [1.4, 1.8, 2.2, 2.8, 3.5, 4.2], in tenths
DEFAULT_SCALES == <<14, 18, 22, 28, 35, 42>>

\* the texts a QR code of the explored documents can hold
QrTexts == {"qrA", "qrB"}

RECURSIVE SeqToSet(_)
SeqToSet(s) == IF s = <<>> THEN {} ELSE {Head(s)} \cup SeqToSet(Tail(s))

-----------------------------------------------------------------------------
(* Strings as sequences of characters, and the JavaScript values the       *)
(* reconciliation handles                                                  *)

Digits == <<"0", "1", "2", "3", "4", "5", "6", "7", "8", "9">>
LowerLetters == <<"a", "b", "c", "d", "e", "f", "g", "h", "i", "j", "k", "l", "m",
                  "n", "o", "p", "q", "r", "s", "t", "u", "v", "w", "x", "y", "z">>
UpperLetters == <<"A", "B", "C", "D", "E", "F", "G", "H", "I", "J", "K", "L", "M",
                  "N", "O", "P", "Q", "R", "S", "T", "U", "V", "W", "X", "Y", "Z">>

IsDigit(c) == \E i \in 1..10 : Digits[i] = c
DigitValue(c) == (CHOOSE i \in 1..10 : Digits[i] = c) - 1
\* /\s/ on the characters the model uses
IsWhite(c) == c \in {" ", "\n", "\t"}

\* String.prototype.toUpperCase / toLowerCase, one character
UpperChar(c) ==
    IF \E i \in 1..26 : LowerLetters[i] = c
    THEN UpperLetters[CHOOSE i \in 1..26 : LowerLetters[i] = c]
    ELSE IF c = "é" THEN "É" ELSE c
LowerChar(c) ==
    IF \E i \in 1..26 : UpperLetters[i] = c
    THEN LowerLetters[CHOOSE i \in 1..26 : UpperLetters[i] = c]
    ELSE IF c = "É" THEN "é" ELSE c

ToUpperCase(s) == [i \in 1..Len(s) |-> UpperChar(s[i])]
ToLowerCase(s) == [i \in 1..Len(s) |-> LowerChar(s[i])]

RECURSIVE TrimStart(_)
TrimStart(s) == IF s # <<>> /\ IsWhite(Head(s)) THEN TrimStart(Tail(s)) ELSE s
RECURSIVE TrimEnd(_)
TrimEnd(s) ==
    IF s # <<>> /\ IsWhite(s[Len(s)]) THEN TrimEnd(SubSeq(s, 1, Len(s) - 1)) ELSE s
\* String.prototype.trim
Trim(s) == TrimEnd(TrimStart(s))

\* s.replace(/\s+/g, '')
RemoveWhitespace(s) == SelectSeq(s, LAMBDA c : ~IsWhite(c))

\* the number of leading digits of s
RECURSIVE LeadingDigits(_)
LeadingDigits(s) ==
    IF s # <<>> /\ IsDigit(Head(s)) THEN 1 + LeadingDigits(Tail(s)) ELSE 0

\* the natural number written by a sequence of digits
RECURSIVE DigitsToNat(_)
DigitsToNat(s) ==
    IF s = <<>> THEN 0
    ELSE DigitsToNat(SubSeq(s, 1, Len(s) - 1)) * 10 + DigitValue(s[Len(s)])

\* the decimal digits of a natural number
RECURSIVE NatToDigits(_)
NatToDigits(n) ==
    IF n < 10 THEN <<Digits[n + 1]>>
    ELSE NatToDigits(n \div 10) \o <<Digits[(n % 10) + 1]>>

\* n written with at least w digits (padStart(w, '0'))
PadDigits(n, w) ==
    LET d == NatToDigits(n) IN
    IF Len(d) >= w THEN d ELSE [i \in 1..w |-> IF i <= w - Len(d) THEN "0" ELSE d[i - (w - Len(d))]]

\* index of the first occurrence of character c in s, 0 when there is none
RECURSIVE IndexOfChar(_, _)
IndexOfChar(s, c) ==
    IF s = <<>> THEN 0
    ELSE IF Head(s) = c THEN 1
    ELSE LET r == IndexOfChar(Tail(s), c) IN IF r = 0 THEN 0 ELSE r + 1

\* JavaScript values: undefined and null (both "nullish"), strings, numbers
\* (fixed-point, in tenths) and Date objects (calendar date, local time).
Undefined == [t |-> "undefined"]
Str(s) == [t |-> "string", s |-> s]
Num(n) == [t |-> "number", n |-> n]
DateValue(y, m, d) == [t |-> "date", y |-> y, m |-> m, d |-> d]

IsNullish(v) == v.t = "undefined"
IsString(v) == v.t = "string"
IsNumber(v) == v.t = "number"
IsDate(v) == v.t = "date"
\* a ?? b
Coalesce(a, b) == IF IsNullish(a) THEN b ELSE a
\* JavaScript truthiness of the values above
Truthy(v) ==
    CASE IsNullish(v) -> FALSE
      [] IsString(v) -> v.s # <<>>
      [] IsNumber(v) -> v.n # 0
      [] OTHER -> TRUE

\* String(n) for a number in tenths: 10006 is "1000.6", 10000 is "1000"
NumberToString(n) ==
    LET a == IF n < 0 THEN 0 - n ELSE n
        whole == NatToDigits(a \div 10)
        frac == IF a % 10 = 0 THEN <<>> ELSE <<".", Digits[(a % 10) + 1]>>
    IN  (IF n < 0 THEN <<"-">> ELSE <<>>) \o whole \o frac

\* Number.parseFloat on a string made of digits, '.', ',' and '-': an optional
\* sign, digits, an optional fraction; NaN (here Undefined, as every caller
\* maps a non-finite result to undefined) when no digit is found.  Fraction
\* digits after the first are beyond the fixed-point unit and are dropped.
ParseFloat(s) ==
    LET neg == s # <<>> /\ Head(s) = "-"
        body == IF neg THEN Tail(s) ELSE s
        n1 == LeadingDigits(body)
        rest == SubSeq(body, n1 + 1, Len(body))
        frac == IF rest # <<>> /\ Head(rest) = "."
                THEN SubSeq(Tail(rest), 1, LeadingDigits(Tail(rest)))
                ELSE <<>>
        tenths == DigitsToNat(SubSeq(body, 1, n1)) * 10
                  + (IF frac = <<>> THEN 0 ELSE DigitValue(frac[1]))
    IN  IF n1 = 0 /\ frac = <<>> THEN Undefined
        ELSE Num(IF neg THEN 0 - tenths ELSE tenths)

\* parseAmount(input, options) of normalizers: keep digits, both separators
\* and '-', drop the thousands separator, turn the first decimal separator
\* into '.', then Number.parseFloat.
parseAmount(input, decimalSeparator) ==
    IF input = <<>> THEN Undefined
    ELSE
    LET thousandsSeparator == IF decimalSeparator = "." THEN "," ELSE "."
        kept == SelectSeq(input, LAMBDA c :
                    IsDigit(c) \/ c \in {decimalSeparator, thousandsSeparator, "-"})
        noThousands == SelectSeq(kept, LAMBDA c : c # thousandsSeparator)
        at == IndexOfChar(noThousands, decimalSeparator)
        cleaned == [i \in 1..Len(noThousands) |->
                       IF i = at THEN "." ELSE noThousands[i]]
    IN  ParseFloat(cleaned)

\* a normalizeTin that only drops white space and keeps punctuation
normalizeTinKeepingPunctuation(input) ==
    LET kept == SelectSeq(input, LAMBDA c : ~IsWhite(c)) IN
    IF kept = <<>> THEN Undefined ELSE Str(kept)
\* normalizeTin: the digits of the input, undefined when there is none
normalizeTin(input) ==
    LET digits == SelectSeq(input, IsDigit) IN
    IF digits = <<>> THEN Undefined ELSE Str(digits)

-----------------------------------------------------------------------------
(* Dates: parseDateStrict and format(date, 'yyyy-MM-dd')                   *)

IsLeapYear(y) == (y % 4 = 0 /\ y % 100 # 0) \/ y % 400 = 0
DaysInMonth(y, m) ==
    IF m = 2 THEN (IF IsLeapYear(y) THEN 29 ELSE 28)
    ELSE IF m \in {4, 6, 9, 11} THEN 30 ELSE 31

AllDigits(s) == s # <<>> /\ LeadingDigits(s) = Len(s)

\* const RW_DEFAULT_DATE_FORMATS = ['yyyy-MM-dd', 'dd/MM/yyyy', 'dd-MM-yyyy', 'dd.MM.yyyy']
RW_DEFAULT_DATE_FORMATS ==
    << [sep |-> "-", yearFirst |-> TRUE],
       [sep |-> "/", yearFirst |-> FALSE],
       [sep |-> "-", yearFirst |-> FALSE],
       [sep |-> ".", yearFirst |-> FALSE] >>

\* parse(input, format, new Date()) of date-fns for the numeric formats above:
\* three digit groups (year of 1..4 digits, month and day of 1..2) around the
\* format's separator, the whole input consumed, and a date that exists.
ParseWithFormat(s, fmt) ==
    LET i1 == IndexOfChar(s, fmt.sep)
        p1 == SubSeq(s, 1, i1 - 1)
        r1 == SubSeq(s, i1 + 1, Len(s))
        i2 == IndexOfChar(r1, fmt.sep)
        p2 == SubSeq(r1, 1, i2 - 1)
        p3 == SubSeq(r1, i2 + 1, Len(r1))
        yy == IF fmt.yearFirst THEN p1 ELSE p3
        dd == IF fmt.yearFirst THEN p3 ELSE p1
    IN  IF i1 = 0 \/ i2 = 0 THEN Undefined
        ELSE IF ~(AllDigits(p1) /\ AllDigits(p2) /\ AllDigits(p3)) THEN Undefined
        ELSE IF Len(yy) > 4 \/ Len(p2) > 2 \/ Len(dd) > 2 THEN Undefined
        ELSE LET y == DigitsToNat(yy)
                 m == DigitsToNat(p2)
                 d == DigitsToNat(dd)
             IN  IF y > 0 /\ m \in 1..12 /\ d >= 1 /\ d <= DaysInMonth(y, m)
                 THEN DateValue(y, m, d)
                 ELSE Undefined

\* new Date(input), the fallback of parseDateStrict, on the inputs explored:
\* an ISO date followed by a local time of day ("2024-01-05 10:30") is that
\* day; text without such a prefix is an Invalid Date.
NativeDate(s) ==
    IF Len(s) = 16 /\ s[11] \in {" ", "T"} /\ s[14] = ":"
       /\ AllDigits(SubSeq(s, 12, 13)) /\ AllDigits(SubSeq(s, 15, 16))
       /\ DigitsToNat(SubSeq(s, 12, 13)) < 24 /\ DigitsToNat(SubSeq(s, 15, 16)) < 60
       /\ Len(SubSeq(s, 1, IndexOfChar(s, "-"))) = 5
    THEN ParseWithFormat(SubSeq(s, 1, 10), RW_DEFAULT_DATE_FORMATS[1])
    ELSE Undefined

RECURSIVE FirstFormatThatParses(_, _)
FirstFormatThatParses(s, formats) ==
    IF formats = <<>> THEN NativeDate(s)
    ELSE LET parsed == ParseWithFormat(Trim(s), Head(formats)) IN
         IF IsDate(parsed) THEN parsed ELSE FirstFormatThatParses(s, Tail(formats))

\* parseDateStrict(input, options)
parseDateStrict(input, dateFormats) ==
    IF input = <<>> THEN Undefined
    ELSE FirstFormatThatParses(input,
            IF Len(dateFormats) > 0 THEN dateFormats ELSE RW_DEFAULT_DATE_FORMATS)

\* format(date, 'yyyy-MM-dd')
FormatDate(date) ==
    PadDigits(date.y, 4) \o <<"-">> \o PadDigits(date.m, 2) \o <<"-">> \o PadDigits(date.d, 2)

-----------------------------------------------------------------------------
(* Value conversions of the validator                                      *)

\* String(value)
StringOf(v) ==
    CASE IsString(v) -> v.s
      [] IsNumber(v) -> NumberToString(v.n)
      [] IsDate(v) -> FormatDate(v)
      [] OTHER -> <<"u", "n", "d", "e", "f", "i", "n", "e", "d">>

toStringValue(v) ==
    CASE IsNullish(v) -> Undefined
      [] IsDate(v) -> Str(FormatDate(v))
      [] IsString(v) -> IF Trim(v.s) = <<>> THEN Undefined ELSE Str(Trim(v.s))
      [] IsNumber(v) -> Str(NumberToString(v.n))
      [] OTHER -> Str(StringOf(v))

toNumberValue(v) ==
    CASE IsNumber(v) -> v
      [] IsString(v) -> parseAmount(v.s, ".")
      [] OTHER -> Undefined

toDateString(v) ==
    CASE IsDate(v) -> Str(FormatDate(v))
      [] IsString(v) ->
            LET trimmed == Trim(v.s)
                parsed == parseDateStrict(trimmed, <<>>)
                sp == IndexOfChar(trimmed, " ")
                datePart == IF sp = 0 THEN trimmed ELSE SubSeq(trimmed, 1, sp - 1)
                parsedDatePart == parseDateStrict(datePart, <<>>)
            IN  IF IsDate(parsed) THEN Str(FormatDate(parsed))
                ELSE IF datePart # <<>> /\ datePart # trimmed /\ IsDate(parsedDatePart)
                     THEN Str(FormatDate(parsedDatePart))
                     ELSE Undefined
      [] OTHER -> Undefined

normalizeInvoiceNumber(v) ==
    IF IsNullish(v) THEN Undefined
    ELSE LET str == ToUpperCase(RemoveWhitespace(Trim(StringOf(v)))) IN
         IF Len(str) > 0 THEN Str(str) ELSE Undefined

normalizeCurrency(v) ==
    IF IsNullish(v) THEN Undefined
    ELSE LET str == ToUpperCase(Trim(StringOf(v))) IN
         IF Len(str) > 0 THEN Str(str) ELSE Undefined

\* EbmTemplate.coerceValue(value, type)
coerceValue(value, type, decimalSeparator, dateFormats) ==
    CASE type \in {"amount", "number"} -> parseAmount(value, decimalSeparator)
      [] type = "date" -> parseDateStrict(value, dateFormats)
      [] OTHER -> Str(Trim(value))

-----------------------------------------------------------------------------
(* buildComparison                                                         *)

\* the canonical fields of EbmQrPayload
CanonicalKeys ==
    <<"tin", "buyerTin", "invoiceNumber", "issueDate", "totalAmount", "vatAmount", "currency">>
AmountKeys == {"totalAmount", "vatAmount"}

\* const NUMERIC_TOLERANCE = { totalAmount: 1, vatAmount: 1 }, in tenths;
\* NUMERIC_TOLERANCE[qrKey] ?? 0
NoTolerance(qrKey) == 0
NUMERIC_TOLERANCE(qrKey) == IF qrKey \in AmountKeys THEN 10 ELSE 0

Abs(n) == IF n < 0 THEN 0 - n ELSE n

\* Math.abs(qrNumber - textNumber) <= tolerance
StrictlyWithinTolerance(a, b, tolerance) == Abs(a - b) < tolerance
WithinTolerance(a, b, tolerance) == Abs(a - b) <= tolerance

\* textField?.value ?? textField?.raw ?? null
TextValueIgnoringRaw(textField) ==
    IF IsNullish(textField) THEN Undefined ELSE textField.value
TextValueOf(textField) ==
    IF IsNullish(textField) THEN Undefined
    ELSE Coalesce(textField.value, textField.raw)

\* qrX && textX && qrX === textX
SameTruthy(a, b) == Truthy(a) /\ Truthy(b) /\ a = b

buildComparison(fieldName, qrKey, qrValue, textField) ==
    LET textValue == TextValueOf(textField)
        textEmpty == IsNullish(textValue) \/ textValue = Str(<<>>)
        base == [field |-> fieldName,
                 status |-> "unverified",
                 qrValue |-> qrValue,
                 textValue |-> toStringValue(textValue),
                 details |-> "none"]
        Decide(q, t, same, why) ==
            [base EXCEPT !.qrValue = q, !.textValue = t,
                         !.status = IF same THEN "match" ELSE "mismatch",
                         !.details = IF same THEN "none" ELSE why]
    IN
    IF IsNullish(qrValue) /\ textEmpty
    THEN [base EXCEPT !.status = "unverified", !.details = "both missing"]
    ELSE IF IsNullish(qrValue)
    THEN [base EXCEPT !.status = "missing", !.details = "QR payload does not provide this field"]
    ELSE IF textEmpty
    THEN [base EXCEPT !.status = "missing", !.details = "Invoice text does not provide this field"]
    ELSE
    CASE qrKey \in {"tin", "buyerTin"} ->
            LET qrTin == normalizeTin(StringOf(qrValue))
                textTin == normalizeTin(StringOf(textValue))
            IN  Decide(qrTin, textTin, SameTruthy(qrTin, textTin), "TIN values differ")
      [] qrKey = "invoiceNumber" ->
            LET qrNumber == normalizeInvoiceNumber(qrValue)
                textNumber == normalizeInvoiceNumber(textValue)
            IN  Decide(qrNumber, textNumber, SameTruthy(qrNumber, textNumber),
                       "Invoice numbers do not match")
      [] qrKey = "issueDate" ->
            LET qrDate == toDateString(qrValue)
                textDate == toDateString(textValue)
            IN  Decide(qrDate, textDate, SameTruthy(qrDate, textDate), "Issue dates differ")
      [] qrKey \in AmountKeys ->
            LET qrNumber == toNumberValue(qrValue)
                textNumber == toNumberValue(textValue)
            IN  IF ~IsNullish(qrNumber) /\ ~IsNullish(textNumber)
                THEN Decide(qrNumber, textNumber,
                            WithinTolerance(qrNumber.n, textNumber.n, NUMERIC_TOLERANCE(qrKey)),
                            "Values differ beyond tolerance")
                ELSE [base EXCEPT !.qrValue = qrNumber, !.textValue = textNumber,
                                  !.status = "missing",
                                  !.details = "Unable to parse numeric value for comparison"]
      [] qrKey = "currency" ->
            LET qrCurrency == normalizeCurrency(qrValue)
                textCurrency == normalizeCurrency(textValue)
            IN  Decide(qrCurrency, textCurrency, SameTruthy(qrCurrency, textCurrency),
                       "Currency codes differ")
      [] OTHER ->
            [base EXCEPT !.status = "unverified",
                         !.details = "No comparator implemented for this field"]

-----------------------------------------------------------------------------
(* The inputs buildComparison is explored on                               *)

\* amounts in tenths: 0.0 .. and 1000.0 .. , MaxDelta tenths wide each
Amounts == (0..MaxDelta) \cup {10000 + d : d \in 0..MaxDelta}

\* text a field pattern can capture from an invoice page, per kind of field
NotAvailable == <<"n", "/", "a">>
RawSamples(qrKey) ==
    CASE qrKey \in {"tin", "buyerTin"} ->
            { <<"1", "2", "3">>, <<"1", "-", "2", "3">>, <<"1", "2", "4">>, NotAvailable, <<" ">> }
      [] qrKey = "invoiceNumber" ->
            { <<"i", "n", "v", "7">>, <<"I", "N", "V", " ", "7">>, <<"I", "N", "V", "8">>, <<" ">> }
      [] qrKey = "issueDate" ->
            { <<"2", "0", "2", "4", "-", "0", "1", "-", "0", "5">>,
              <<"0", "5", "/", "0", "1", "/", "2", "0", "2", "4">>,
              <<"2", "0", "2", "4", "-", "0", "1", "-", "0", "5", " ", "1", "0", ":", "3", "0">>,
              <<"0", "6", ".", "0", "1", ".", "2", "0", "2", "4">>,
              <<"3", "1", "/", "0", "2", "/", "2", "0", "2", "4">>,
              NotAvailable }
      [] qrKey \in AmountKeys ->
            {NumberToString(n) : n \in Amounts}
            \cup { <<"1", ",", "0", "0", "0", ".", "6">>, <<"R", "W", "F">>, NotAvailable }
      [] OTHER ->
            { <<"r", "w", "f">>, <<"R", "W", "F", " ">>, <<"U", "S", "D">>, <<" ">> }

\* EbmTemplateFieldConfig.type of a field of that kind (absent: "none")
TypesFor(qrKey) ==
    CASE qrKey \in AmountKeys -> {"none", "string", "amount"}
      [] qrKey = "issueDate" -> {"none", "string", "date"}
      [] qrKey \in {"tin", "buyerTin"} -> {"none", "string", "number"}
      [] OTHER -> {"none", "string"}

\* The EbmExtractedField extractField builds from one captured text: without
\* a type the match keeps value = raw (createMatchRecord), with a type the
\* value is coerceValue(raw, type) (coerceMatchValues).
ExtractedFrom(raw, type) ==
    [t |-> "field",
     value |-> IF type = "none" THEN Str(raw) ELSE coerceValue(raw, type, ".", <<>>),
     raw |-> Str(raw)]
\* a field whose pattern matched nothing
NoMatchField == [t |-> "field", value |-> Undefined, raw |-> Undefined]

TextFields(qrKey) ==
    {NoMatchField} \cup {ExtractedFrom(r, ty) : r \in RawSamples(qrKey), ty \in TypesFor(qrKey)}

\* The value assignKeyValue stores in a canonical field of the payload.
AssignedValue(qrKey, value) ==
    LET stringValue == toStringValue(value) IN
    CASE qrKey \in {"tin", "buyerTin"} ->
            IF Truthy(stringValue) THEN normalizeTin(stringValue.s) ELSE Undefined
      [] qrKey = "invoiceNumber" ->
            IF Truthy(stringValue) THEN normalizeInvoiceNumber(stringValue) ELSE Undefined
      [] qrKey = "issueDate" ->
            IF Truthy(stringValue) THEN toDateString(stringValue) ELSE Undefined
      [] qrKey \in AmountKeys ->
            IF ~IsNullish(stringValue) THEN toNumberValue(stringValue) ELSE Undefined
      [] OTHER ->
            IF Truthy(stringValue) THEN normalizeCurrency(stringValue) ELSE Undefined

\* the values a canonical field of a parsed payload can hold
QrValues(qrKey) ==
    {Undefined} \cup {AssignedValue(qrKey, Str(r)) : r \in RawSamples(qrKey)}

CmpIdle ==
    /\ cmpPc = "idle"
    /\ cmpKey = "none"
    /\ cmpQrValue = Undefined
    /\ cmpTextField = Undefined
    /\ comparison = Undefined

\* computeComparisons is about to call buildComparison(fieldName, qrKey,
\* qrValue, textField, qrSource); textField is undefined for a canonical field
\* no template field maps to.
CmpInit ==
    /\ cmpPc = "call"
    /\ cmpKey \in SeqToSet(CanonicalKeys)
    /\ cmpQrValue \in QrValues(cmpKey)
    /\ cmpTextField \in {Undefined} \cup TextFields(cmpKey)
    /\ comparison = Undefined

BuildComparison ==
    /\ cmpPc = "call"
    /\ comparison' = buildComparison(cmpKey, cmpKey, cmpQrValue, cmpTextField)
    /\ cmpPc' = "done"
    /\ UNCHANGED <<cmpKey, cmpQrValue, cmpTextField>>

-----------------------------------------------------------------------------
(* EbmTemplate: prepareInput, applyTransformations, matchesInput           *)

\* the characters of the texts and keywords explored: a lower-case letter, an
\* upper-case letter, an accented letter and white space
TextChars == {"a", "B", "é", " "}

\* all sequences over `chars` of length at most n
RECURSIVE StringsUpTo(_, _)
StringsUpTo(chars, n) ==
    IF n = 0 THEN {<<>>}
    ELSE LET shorter == StringsUpTo(chars, n - 1) IN
         shorter \cup {Append(s, c) : s \in shorter, c \in chars}

\* all sequences over `items` of length at most n
RECURSIVE ListsUpTo(_, _)
ListsUpTo(items, n) ==
    IF n = 0 THEN {<<>>}
    ELSE LET shorter == ListsUpTo(items, n - 1) IN
         shorter \cup {Append(l, x) : l \in shorter, x \in items}

\* haystack.includes(needle)
Includes(haystack, needle) ==
    \E i \in 0..(Len(haystack) - Len(needle)) :
        SubSeq(haystack, i + 1, i + Len(needle)) = needle

\* normalizeWhitespace: input.replace(/[\s ]+/g, ' ').trim()
RECURSIVE CollapseWhitespace(_)
CollapseWhitespace(s) ==
    IF s = <<>> THEN <<>>
    ELSE IF IsWhite(Head(s))
         THEN <<" ">> \o CollapseWhitespace(TrimStart(s))
         ELSE <<Head(s)>> \o CollapseWhitespace(Tail(s))
normalizeWhitespace(input) == Trim(CollapseWhitespace(input))

\* result.normalize('NFKD').replace(combiningMarks, ''): the base letter of
\* an accented letter
BaseLetter(c) == IF c = "é" THEN "e" ELSE IF c = "É" THEN "E" ELSE c
RemoveAccents(s) == [i \in 1..Len(s) |-> BaseLetter(s[i])]

\* acc.replace(new RegExp(pattern, 'g'), replacement) for a pattern that is a
\* non-empty literal: every non-overlapping occurrence, left to right
RECURSIVE ReplaceAll(_, _, _)
ReplaceAll(s, pattern, replacement) ==
    IF Len(s) < Len(pattern) THEN s
    ELSE IF SubSeq(s, 1, Len(pattern)) = pattern
         THEN replacement \o ReplaceAll(SubSeq(s, Len(pattern) + 1, Len(s)), pattern, replacement)
         ELSE <<Head(s)>> \o ReplaceAll(Tail(s), pattern, replacement)

\* applyReplacements(value, replacements)
RECURSIVE applyReplacements(_, _)
applyReplacements(value, replacements) ==
    IF replacements = <<>> THEN value
    ELSE applyReplacements(
            ReplaceAll(value, Head(replacements)[1], Head(replacements)[2]),
            Tail(replacements))

\* EbmTemplate.prepareInput(content)
prepareInput(options, input) ==
    LET spaced == IF options.removeWhitespace
                  THEN RemoveWhitespace(input)
                  ELSE normalizeWhitespace(input)
        plain == IF options.removeAccents THEN RemoveAccents(spaced) ELSE spaced
        cased == IF options.lowercase THEN ToLowerCase(plain) ELSE plain
    IN  applyReplacements(cased, options.replace)

\* EbmTemplate.applyTransformations(value), applied to every keyword by the
\* constructor
applyTransformations(options, value) ==
    LET spaced == IF options.removeWhitespace THEN RemoveWhitespace(value) ELSE value
        plain == IF options.removeAccents THEN RemoveAccents(spaced) ELSE spaced
        cased == IF options.lowercase THEN ToLowerCase(plain) ELSE plain
    IN  applyReplacements(cased, options.replace)

\* EbmTemplate.matchesInput(content) of a template whose transformed keyword
\* lists are `kws` and `excludeKws`
matchesInput(options, kws, excludeKws, input) ==
    LET prepared == prepareInput(options, input)
        keywordsMatch ==
            \A i \in 1..Len(kws) :
                IF kws[i] # <<>> THEN Includes(prepared, kws[i]) ELSE TRUE
    IN  IF ~keywordsMatch THEN FALSE
        ELSE IF Len(excludeKws) = 0 THEN TRUE
        ELSE ~(\E i \in 1..Len(excludeKws) :
                  IF excludeKws[i] # <<>>
                  THEN Includes(prepared, excludeKws[i])
                  ELSE FALSE)

\* the `replace` options explored: none, the one substitution "aB" -> "B",
\* and the two substitutions "a" -> "B", "B" -> " " in that order
ReplaceOptions ==
    { <<>>,
      << <<(<<"a", "B">>), (<<"B">>)>> >>,
      << <<(<<"a">>), (<<"B">>)>>, <<(<<"B">>), (<<" ">>)>> >> }

TemplateOptions ==
    [removeWhitespace : BOOLEAN, removeAccents : BOOLEAN, lowercase : BOOLEAN,
     replace : ReplaceOptions]

KeywordLists == ListsUpTo(StringsUpTo(TextChars, MaxKeywordLen), MaxKeywords)

TmIdle ==
    /\ tmPc = "idle"
    /\ definition = Undefined
    /\ keywords = <<>>
    /\ excludeKeywords = <<>>
    /\ content = <<>>
    /\ matched = FALSE
    /\ preparedContent = <<>>

\* new EbmTemplate(definition): the keyword lists are transformed once.
TmInit ==
    /\ tmPc = "loaded"
    /\ definition \in [keywords : KeywordLists, excludeKeywords : KeywordLists,
                       options : TemplateOptions]
    /\ keywords = [i \in 1..Len(definition.keywords) |->
                      applyTransformations(definition.options, definition.keywords[i])]
    /\ excludeKeywords = [i \in 1..Len(definition.excludeKeywords) |->
                      applyTransformations(definition.options, definition.excludeKeywords[i])]
    /\ content = <<>>
    /\ matched = FALSE
    /\ preparedContent = <<>>

\* template.matchesInput(content) on a document text
MatchesInput ==
    /\ tmPc = "loaded"
    /\ \E text \in StringsUpTo(TextChars, MaxTextLen) :
          /\ content' = text
          /\ matched' = matchesInput(definition.options, keywords, excludeKeywords, text)
          /\ preparedContent' = prepareInput(definition.options, text)
    /\ tmPc' = "done"
    /\ UNCHANGED <<definition, keywords, excludeKeywords>>

-----------------------------------------------------------------------------
(* validateEbmInvoice: payloads, field mapping, merge, comparisons         *)

\* FIELD_MAPPING, in insertion order: template field name -> canonical field
FIELD_MAPPING ==
    << <<<<"t", "i", "n">>, "tin">>,
       <<<<"s", "e", "l", "l", "e", "r", "_", "t", "i", "n">>, "tin">>,
       <<<<"s", "e", "l", "l", "e", "r", "-", "t", "i", "n">>, "tin">>,
       <<<<"s", "u", "p", "p", "l", "i", "e", "r", "_", "t", "i", "n">>, "tin">>,
       <<<<"i", "n", "v", "o", "i", "c", "e", "_", "n", "u", "m", "b", "e", "r">>, "invoiceNumber">>,
       <<<<"i", "n", "v", "o", "i", "c", "e", "-", "n", "u", "m", "b", "e", "r">>, "invoiceNumber">>,
       <<<<"i", "n", "v", "o", "i", "c", "e">>, "invoiceNumber">>,
       <<<<"i", "n", "v", "o", "i", "c", "e", "_", "n", "o">>, "invoiceNumber">>,
       <<<<"i", "s", "s", "u", "e", "_", "d", "a", "t", "e">>, "issueDate">>,
       <<<<"i", "n", "v", "o", "i", "c", "e", "_", "d", "a", "t", "e">>, "issueDate">>,
       <<<<"d", "a", "t", "e">>, "issueDate">>,
       <<<<"t", "o", "t", "a", "l", "_", "a", "m", "o", "u", "n", "t">>, "totalAmount">>,
       <<<<"g", "r", "a", "n", "d", "_", "t", "o", "t", "a", "l">>, "totalAmount">>,
       <<<<"a", "m", "o", "u", "n", "t">>, "totalAmount">>,
       <<<<"t", "o", "t", "a", "l">>, "totalAmount">>,
       <<<<"v", "a", "t", "_", "a", "m", "o", "u", "n", "t">>, "vatAmount">>,
       <<<<"t", "a", "x", "_", "a", "m", "o", "u", "n", "t">>, "vatAmount">>,
       <<<<"v", "a", "t">>, "vatAmount">>,
       <<<<"b", "u", "y", "e", "r", "_", "t", "i", "n">>, "buyerTin">>,
       <<<<"b", "u", "y", "e", "r", "-", "t", "i", "n">>, "buyerTin">>,
       <<<<"c", "u", "s", "t", "o", "m", "e", "r", "_", "t", "i", "n">>, "buyerTin">>,
       <<<<"c", "u", "r", "r", "e", "n", "c", "y">>, "currency">> >>

\* FIELD_MAPPING.get(name): the canonical field, Null when the name is not a key
FieldMappingGet(name) ==
    IF \E i \in 1..Len(FIELD_MAPPING) : FIELD_MAPPING[i][1] = name
    THEN FIELD_MAPPING[CHOOSE i \in 1..Len(FIELD_MAPPING) : FIELD_MAPPING[i][1] = name][2]
    ELSE Null

\* QR_KEY_TO_FIELD.get(qrKey): the first field name FIELD_MAPPING maps to qrKey
QR_KEY_TO_FIELD(qrKey) ==
    LET hits == {i \in 1..Len(FIELD_MAPPING) : FIELD_MAPPING[i][2] = qrKey} IN
    IF hits = {} THEN Null
    ELSE FIELD_MAPPING[CHOOSE i \in hits : \A j \in hits : i <= j][1]

\* keys of EbmQrPayload.additional that occur: 'mrc' can come from the QR text
\* and from the receipt page, 'rraReceiptUrl' from the receipt page only,
\* 'currencySource' is set by validateEbmInvoice
AdditionalKeys == {"mrc", "rraReceiptUrl", "currencySource"}
NoAdditional == [k \in AdditionalKeys |-> Undefined]

\* const payload: EbmQrPayload = { raw, additional: {} } with no field assigned
EmptyPayload(raw) ==
    [t |-> "payload", raw |-> raw,
     tin |-> Undefined, buyerTin |-> Undefined, invoiceNumber |-> Undefined,
     issueDate |-> Undefined, totalAmount |-> Undefined, vatAmount |-> Undefined,
     currency |-> Undefined, additional |-> NoAdditional]

\* key.trim().toLowerCase().replace(/[^a-z0-9]/g, '')
normalizeKey(key) ==
    SelectSeq(ToLowerCase(Trim(key)),
              LAMBDA c : IsDigit(c) \/ \E i \in 1..26 : LowerLetters[i] = c)

\* the switch of assignKeyValue on the normalized key
CanonicalFieldOf(normalizedKey) ==
    CASE normalizedKey \in
            {<<"t", "i", "n">>, <<"s", "e", "l", "l", "e", "r", "t", "i", "n">>, <<"s", "u", "p", "p", "l", "i", "e", "r", "t", "i", "n">>, <<"t", "r", "a", "d", "e", "t", "i", "n">>} -> "tin"
      [] normalizedKey \in
            {<<"b", "u", "y", "e", "r", "t", "i", "n">>, <<"c", "u", "s", "t", "o", "m", "e", "r", "t", "i", "n">>, <<"r", "e", "c", "e", "i", "v", "e", "r", "t", "i", "n">>} -> "buyerTin"
      [] normalizedKey \in
            {<<"i", "n", "v", "o", "i", "c", "e">>, <<"i", "n", "v", "o", "i", "c", "e", "n", "u", "m", "b", "e", "r">>, <<"i", "n", "v", "o", "i", "c", "e", "n", "o">>, <<"i", "n", "v", "o", "i", "c", "e", "i", "d">>, <<"r", "e", "c", "e", "i", "p", "t">>} ->
            "invoiceNumber"
      [] normalizedKey \in
            {<<"i", "s", "s", "u", "e", "d", "a", "t", "e">>, <<"i", "n", "v", "o", "i", "c", "e", "d", "a", "t", "e">>, <<"d", "a", "t", "e">>, <<"t", "r", "a", "n", "s", "a", "c", "t", "i", "o", "n", "d", "a", "t", "e">>} ->
            "issueDate"
      [] normalizedKey \in
            {<<"t", "o", "t", "a", "l", "a", "m", "o", "u", "n", "t">>, <<"g", "r", "a", "n", "d", "t", "o", "t", "a", "l">>, <<"t", "o", "t", "a", "l", "s", "a", "l", "e", "s">>, <<"a", "m", "o", "u", "n", "t">>, <<"t", "o", "t", "a", "l">>} ->
            "totalAmount"
      [] normalizedKey \in
            {<<"v", "a", "t", "a", "m", "o", "u", "n", "t">>, <<"t", "a", "x", "a", "m", "o", "u", "n", "t">>, <<"t", "o", "t", "a", "l", "t", "a", "x">>, <<"v", "a", "t">>} ->
            "vatAmount"
      [] normalizedKey \in {<<"c", "u", "r", "r", "e", "n", "c", "y">>, <<"c", "u", "r", "r">>} -> "currency"
      [] OTHER -> Null

\* the entry of `additional` a normalized key outside the switch is stored
\* under, for the entries the model follows (AdditionalKeys); Null otherwise
TrackedAdditional(normalizedKey) == IF normalizedKey = <<"m", "r", "c">> THEN "mrc" ELSE Null

\* assignKeyValue(key, value, payload, additional)
assignKeyValue(key, value, payload) ==
    LET normalizedKey == normalizeKey(key)
        qrKey == CanonicalFieldOf(normalizedKey)
    IN  IF qrKey # Null
        THEN [payload EXCEPT ![qrKey] = AssignedValue(qrKey, value)]
        ELSE IF ~IsNullish(toStringValue(value)) /\ TrackedAdditional(normalizedKey) # Null
             THEN [payload EXCEPT
                      !.additional[TrackedAdditional(normalizedKey)] = toStringValue(value)]
             ELSE payload

\* assignFieldFromObject(obj, ...) and params.forEach((value, key) => ...):
\* the entries of a parsed object or parameter list assigned in order
RECURSIVE AssignPairs(_, _)
AssignPairs(pairs, payload) ==
    IF pairs = <<>> THEN payload
    ELSE AssignPairs(Tail(pairs), assignKeyValue(Head(pairs)[1], Head(pairs)[2], payload))

\* a tokenizer that does not split on ','
DelimitersWithoutComma == {"\n", ";", "|"}
\* const delimiters = /[\n;,|]+/
Delimiters == {"\n", ";", ",", "|"}

\* text.split(delimiters), up to empty pieces (which filter(Boolean) drops):
\* the pieces between delimiter characters
RECURSIVE SplitOn(_, _, _)
SplitOn(text, piece, delims) ==
    IF text = <<>> THEN <<piece>>
    ELSE IF Head(text) \in delims THEN <<piece>> \o SplitOn(Tail(text), <<>>, delims)
    ELSE SplitOn(Tail(text), Append(piece, Head(text)), delims)

\* text.split(delimiters).map((token) => token.trim()).filter(Boolean)
Tokens(text) ==
    LET pieces == SplitOn(text, <<>>, Delimiters) IN
    SelectSeq([i \in 1..Len(pieces) |-> Trim(pieces[i])], LAMBDA token : token # <<>>)

\* token.indexOf(':') !== -1 ? token.indexOf(':') : token.indexOf('='),
\* counted from 1, 0 when the token has neither
SeparatorIndex(token) ==
    IF IndexOfChar(token, ":") # 0 THEN IndexOfChar(token, ":") ELSE IndexOfChar(token, "=")

\* the loop of parseStructuredString; a token without separator only adds
\* an entry token_N to `additional`, which the model does not follow
RECURSIVE AssignTokens(_, _)
AssignTokens(tokens, payload) ==
    IF tokens = <<>> THEN payload
    ELSE AssignTokens(Tail(tokens),
            IF SeparatorIndex(Head(tokens)) # 0
            THEN assignKeyValue(SubSeq(Head(tokens), 1, SeparatorIndex(Head(tokens)) - 1),
                                Str(SubSeq(Head(tokens), SeparatorIndex(Head(tokens)) + 1,
                                           Len(Head(tokens)))),
                                payload)
            ELSE payload)

\* parseStructuredString(text, payload, additional)
parseStructuredString(text, payload) == AssignTokens(Tokens(text), payload)

\* A decoded QR text: its characters, what JSON.parse makes of it (an object
\* with its entries, Undefined when it throws or yields no object) and what
\* new URL makes of it (hostname, query and fragment parameters as
\* URLSearchParams lists them; Undefined when it throws or when the text has
\* no hostname, query or fragment).
QrText(chars, json, url) == [t |-> "qrText", chars |-> chars, json |-> json, url |-> url]

\* the entries the JSON and URL stages of parseEbmQrPayload assign, in order
ParsedEntries(raw) ==
    (IF IsNullish(raw.json) THEN <<>> ELSE raw.json.entries)
    \o (IF Includes(Trim(raw.chars), <<":", "/", "/">>) /\ ~IsNullish(raw.url)
        THEN raw.url.search \o raw.url.hash
        ELSE <<>>)

\* Object.keys(payload).length <= 2: no canonical field has been assigned,
\* not even the value undefined (`additional` is a separate object)
OnlyRawAndAdditional(entries) ==
    \A i \in 1..Len(entries) : CanonicalFieldOf(normalizeKey(entries[i][1])) = Null

\* parseEbmQrPayload(raw)
parseEbmQrPayload(raw) ==
    IF Trim(raw.chars) = <<>> THEN EmptyPayload(raw)
    ELSE IF OnlyRawAndAdditional(ParsedEntries(raw))
         THEN parseStructuredString(Trim(raw.chars),
                                    AssignPairs(ParsedEntries(raw), EmptyPayload(raw)))
         ELSE AssignPairs(ParsedEntries(raw), EmptyPayload(raw))

\* `!merged.x || merged.x === ''` of mergeQrPayload, for the string fields
StillEmpty(v) == ~Truthy(v)
\* `merged.x == null` of mergeQrPayload, for the two amounts (a test by
\* falsiness would take 0 for missing)
AmountFalsy(v) == ~Truthy(v)
AmountMissing(v) == IsNullish(v)

\* a merge that builds its result from the updates and not from the base
mergeQrPayloadFromUpdates(base, updates) ==
    IF IsNullish(updates) THEN EmptyPayload(base.raw)
    ELSE [updates EXCEPT !.raw = base.raw]
\* mergeQrPayload(base, updates)
mergeQrPayload(base, updates) ==
    IF IsNullish(updates) THEN base
    ELSE [base EXCEPT
            !.tin = IF ~IsNullish(updates.tin) /\ StillEmpty(@) THEN updates.tin ELSE @,
            !.buyerTin = IF ~IsNullish(updates.buyerTin) /\ StillEmpty(@)
                         THEN updates.buyerTin ELSE @,
            !.invoiceNumber = IF ~IsNullish(updates.invoiceNumber) /\ StillEmpty(@)
                              THEN updates.invoiceNumber ELSE @,
            !.issueDate = IF ~IsNullish(updates.issueDate) /\ StillEmpty(@)
                          THEN updates.issueDate ELSE @,
            !.totalAmount = IF ~IsNullish(updates.totalAmount) /\ AmountMissing(@)
                            THEN updates.totalAmount ELSE @,
            !.vatAmount = IF ~IsNullish(updates.vatAmount) /\ AmountMissing(@)
                          THEN updates.vatAmount ELSE @,
            !.currency = IF ~IsNullish(updates.currency) /\ StillEmpty(@)
                         THEN updates.currency ELSE @,
            !.additional = [k \in AdditionalKeys |->
                               IF ~IsNullish(@[k]) THEN @[k] ELSE updates.additional[k]]]

\* the first loop of computeComparisons: one comparison per extracted field
\* whose lower-cased name is a key of FIELD_MAPPING, in Object.entries order
RECURSIVE FieldComparisons(_, _, _)
FieldComparisons(names, payload, extr) ==
    IF names = <<>> THEN <<>>
    ELSE LET fieldName == Head(names)
             lookupKey == FieldMappingGet(ToLowerCase(fieldName))
             qrValue == IF IsNullish(payload) THEN Undefined ELSE payload[lookupKey]
         IN  (IF lookupKey = Null THEN <<>>
              ELSE <<buildComparison(fieldName, lookupKey, qrValue, extr.fields[fieldName])>>)
             \o FieldComparisons(Tail(names), payload, extr)

\* `alreadyTracked` of computeComparisons
AlreadyTracked(acc, qrKey) ==
    \E i \in 1..Len(acc) : FieldMappingGet(ToLowerCase(acc[i].field)) = qrKey

\* the second loop of computeComparisons: one comparison for every canonical
\* field no comparison tracks yet
RECURSIVE CoverCanonical(_, _, _)
CoverCanonical(keys, payload, acc) ==
    IF keys = <<>> THEN acc
    ELSE LET qrKey == Head(keys)
             targetField == QR_KEY_TO_FIELD(qrKey)
             added == buildComparison(IF targetField = Null THEN qrKey ELSE targetField,
                                      qrKey, payload[qrKey], Undefined)
         IN  CoverCanonical(Tail(keys), payload,
                            IF AlreadyTracked(acc, qrKey) THEN acc ELSE Append(acc, added))

\* computeComparisons(qrPayload, extraction, qrDetections)
computeComparisons(payload, extr) ==
    IF IsNullish(extr) THEN <<>>
    ELSE CoverCanonical(IF IsNullish(payload) THEN <<>> ELSE CanonicalKeys, payload,
                        FieldComparisons(extr.names, payload, extr))

\* a count that overlooks the comparisons of status 'missing'
CountIgnoringMissing(cmps, status) ==
    IF status = "missing" THEN 0
    ELSE Cardinality({i \in 1..Len(cmps) : cmps[i].status = status})
\* comparisons.filter((item) => item.status === status).length
CountStatus(cmps, status) == Cardinality({i \in 1..Len(cmps) : cmps[i].status = status})

\* buildSummary(comparisons, errors)
buildSummary(cmps, errs) ==
    LET matchCount == CountStatus(cmps, "match")
        mismatchCount == CountStatus(cmps, "mismatch")
        missingCount == CountStatus(cmps, "missing")
        Item(label, n) == IF n > 0 THEN <<[label |-> label, count |-> n]>> ELSE <<>>
    IN  IF Len(errs) = 0 /\ mismatchCount = 0 /\ missingCount = 0
        THEN [headline |-> "Invoice details match QR payload.",
              items |-> <<[label |-> "Validated fields", count |-> matchCount]>>]
        ELSE [headline |-> "Invoice validation reported issues.",
              items |-> Item("Matched fields", matchCount)
                        \o Item("Mismatched fields", mismatchCount)
                        \o Item("Missing fields", missingCount)
                        \o Item("Errors", Len(errs))]

-----------------------------------------------------------------------------
(* The inputs a validation run is explored on                              *)

DEFAULT_OPTIONS ==
    [removeWhitespace |-> FALSE, removeAccents |-> FALSE, lowercase |-> FALSE, replace |-> <<>>]

\* Four templates of the store.  `invalidReplace` marks a template whose
\* options.replace holds a pattern that is not a regular expression: it has
\* no keywords (else its constructor would throw), so the pattern is first
\* compiled when prepareInput runs.
TemplateA ==
    [t |-> "template", templateName |-> "A",
     keywords |-> << <<"E", "B", "M", " ", "I", "N", "V", "O", "I", "C", "E">> >>,
     excludeKeywords |-> << <<"P", "R", "O", "F", "O", "R", "M", "A">> >>,
     options |-> DEFAULT_OPTIONS, invalidReplace |-> FALSE,
     fieldNames |-> << <<"t", "i", "n">>, <<"T", "o", "t", "a", "l", "_", "A", "m", "o", "u", "n", "t">>, <<"i", "s", "s", "u", "e", "r">> >>]
TemplateB ==
    [t |-> "template", templateName |-> "B",
     keywords |-> << <<"I", "N", "V", "O", "I", "C", "E">> >>, excludeKeywords |-> <<>>,
     options |-> DEFAULT_OPTIONS, invalidReplace |-> FALSE,
     fieldNames |-> << <<"c", "u", "r", "r", "e", "n", "c", "y">>, <<"a", "m", "o", "u", "n", "t">> >>]
TemplateP ==
    [t |-> "template", templateName |-> "P",
     keywords |-> << <<"P", "R", "O", "F", "O", "R", "M", "A">> >>, excludeKeywords |-> <<>>,
     options |-> DEFAULT_OPTIONS, invalidReplace |-> FALSE,
     fieldNames |-> <<>>]
TemplateX ==
    [t |-> "template", templateName |-> "X", keywords |-> <<>>, excludeKeywords |-> <<>>,
     options |-> DEFAULT_OPTIONS, invalidReplace |-> TRUE,
     fieldNames |-> <<>>]

\* what loadEbmTemplates can resolve to, in load order
CandidateLists ==
    { <<>>, <<TemplateA, TemplateB, TemplateP>>, <<TemplateB, TemplateP, TemplateA>>,
      <<TemplateX, TemplateP>> }

\* snapshot.content of the documents explored: 'EBM INVOICE',
\* 'PROFORMA INVOICE' and 'RECEIPT'
SnapshotContents ==
    { <<"E", "B", "M", " ", "I", "N", "V", "O", "I", "C", "E">>,
      <<"P", "R", "O", "F", "O", "R", "M", "A", " ", "I", "N", "V", "O", "I", "C", "E">>,
      <<"R", "E", "C", "E", "I", "P", "T">> }

\* the EbmExtractedField extractField can produce for a field, by the
\* canonical field its name maps to (Null: the name is not mapped)
ExtractChoices(qrKey) ==
    CASE qrKey = "tin" ->
            {NoMatchField, ExtractedFrom(<<"1", "2", "3">>, "none"),
             ExtractedFrom(<<"1", "2", "4">>, "none")}
      [] qrKey = "totalAmount" ->
            {NoMatchField, ExtractedFrom(<<"1", "0", "0", "0", ".", "6">>, "amount"),
             ExtractedFrom(NotAvailable, "amount")}
      [] qrKey = "currency" -> {NoMatchField, ExtractedFrom(<<"r", "w", "f">>, "none")}
      [] OTHER -> {ExtractedFrom(<<"x">>, "none")}

\* key and written value joined by `sep`, entries joined by `delim`
RECURSIVE JoinEntries(_, _, _)
JoinEntries(written, sep, delim) ==
    IF written = <<>> THEN <<>>
    ELSE Head(written)[1] \o sep \o Head(written)[2]
         \o (IF Len(written) > 1 THEN delim ELSE <<>>)
         \o JoinEntries(Tail(written), sep, delim)

\* the entries with their values written by Render
Written(pairs, Render(_)) == [i \in 1..Len(pairs) |-> <<pairs[i][1], Render(pairs[i][2])>>]

\* encodeURIComponent-style writing of a parameter value
RECURSIVE PercentEncoded(_)
PercentEncoded(s) ==
    IF s = <<>> THEN <<>>
    ELSE (CASE Head(s) = "," -> <<"%", "2", "C">>
            [] Head(s) = ";" -> <<"%", "3", "B">>
            [] Head(s) = "|" -> <<"%", "7", "C">>
            [] Head(s) = ":" -> <<"%", "3", "A">>
            [] Head(s) = " " -> <<"%", "2", "0">>
            [] OTHER -> <<Head(s)>>) \o PercentEncoded(Tail(s))

\* the parameters URLSearchParams yields: every value is a string
AsParameters(pairs) == [i \in 1..Len(pairs) |-> <<pairs[i][1], Str(StringOf(pairs[i][2]))>>]

\* 'key<sep>value' tokens separated by `delim`: neither JSON nor a URL
TokensText(pairs, sep, delim) ==
    QrText(JoinEntries(Written(pairs, StringOf), sep, delim), Undefined, Undefined)

\* 'https://host/?k=v&...#k=v&...'
UrlText(host, search, hash) ==
    QrText(<<"h", "t", "t", "p", "s", ":", "/", "/">> \o host \o <<"/">>
           \o (IF search = <<>> THEN <<>>
               ELSE <<"?">> \o JoinEntries(Written(search, LAMBDA v : PercentEncoded(StringOf(v))),
                                           <<"=">>, <<"&">>))
           \o (IF hash = <<>> THEN <<>>
               ELSE <<"#">> \o JoinEntries(Written(hash, LAMBDA v : PercentEncoded(StringOf(v))),
                                           <<"=">>, <<"&">>)),
           Undefined,
           [t |-> "url", host |-> host, search |-> AsParameters(search),
            hash |-> AsParameters(hash)])

\* a JSON object literal: strings quoted, numbers bare
JsonText(pairs) ==
    QrText(<<"{">>
           \o JoinEntries([i \in 1..Len(pairs) |->
                              << <<"\"">> \o pairs[i][1] \o <<"\"">>,
                                 IF IsNumber(pairs[i][2]) THEN StringOf(pairs[i][2])
                                 ELSE <<"\"">> \o StringOf(pairs[i][2]) \o <<"\"">> >>],
                          <<":">>, <<",">>)
           \o <<"}">>,
           [t |-> "object", entries |-> pairs], Undefined)

\* the key/value pairs a QR text can carry
QrPairSamples ==
    { <<<<"t", "i", "n">>, Str(<<"1", "2", "3">>)>>, <<<<"t", "o", "t", "a", "l">>, Str(<<"0">>)>>, <<<<"t", "o", "t", "a", "l">>, Str(<<"1", "0", "0", "0">>)>>,
      <<<<"c", "u", "r", "r", "e", "n", "c", "y">>, Str(<<"r", "w", "f">>)>>, <<<<"m", "r", "c">>, Str(<<"m", "1">>)>> }

RRA_QR_HOSTNAMES == {<<"m", "y", "r", "r", "a", ".", "r", "r", "a", ".", "g", "o", "v", ".", "r", "w">>}

\* the decoded QR texts explored: 'key:value;...' tokens, a URL on a
\* recognised host with the pairs as query parameters, or a URL on another host
QrTextSamples ==
    { TokensText(pairs, <<":">>, <<";">>) : pairs \in ListsUpTo(QrPairSamples, MaxQrPairs) }
    \cup { UrlText(<<"m", "y", "r", "r", "a", ".", "r", "r", "a", ".", "g", "o", "v", ".", "r", "w">>, pairs, <<>>) : pairs \in ListsUpTo(QrPairSamples, MaxQrPairs) }
    \cup { UrlText(<<"e", "b", "m", ".", "e", "x", "a", "m", "p", "l", "e", ".", "r", "w">>, pairs, <<>>) :
              pairs \in ListsUpTo(QrPairSamples, MaxQrPairs - 1) }

\* what the receipt page can state: a TIN, a total and the 'mrc' entry
ReceiptValues ==
    { <<"tin", Str(<<"1", "2", "4">>)>>, <<"totalAmount", Num(50)>>,
      <<"mrc", Str(<<"m", "2">>)>> }

\* const partial = {}; partial.additional = { rraReceiptUrl }
EmptyPartial ==
    [EmptyPayload(Undefined) EXCEPT !.additional["rraReceiptUrl"] = Str(<<"u">>)]

\* parseRraReceiptHtml(html, url) for a page that states the values `stated`
PartialFrom(stated) ==
    LET ValueOf(k) == IF \E p \in stated : p[1] = k
                      THEN (CHOOSE p \in stated : p[1] = k)[2] ELSE Undefined
    IN  [EmptyPartial EXCEPT
            !.tin = ValueOf("tin"), !.totalAmount = ValueOf("totalAmount"),
            !.additional["mrc"] = ValueOf("mrc")]

\* the receipt pages explored: at most MaxReceiptValues stated values
ReceiptPartials ==
    {PartialFrom(stated) : stated \in {s \in SUBSET ReceiptValues : Cardinality(s) <= MaxReceiptValues}}

-----------------------------------------------------------------------------
(* extractField (textExtractor.ts)                                         *)

\* const normalizeMatch = (value) => normalizeWhitespace(value)
normalizeMatch(value) == normalizeWhitespace(value)

\* createMatchRecord(value, config, pageNumber)
createMatchRecord(value, pageNumber) ==
    [raw |-> Str(value), normalized |-> normalizeMatch(value), value |-> Str(value),
     pageNumber |-> pageNumber]

\* One element of content.matchAll(regex): the matched text and the capture
\* groups of the pattern in pattern order, each with its name ("" for a
\* numbered group) and the text it captured (undefined when the group did not
\* take part in the match).
RegExpMatch(whole, groups) == [t |-> "match", whole |-> whole, groups |-> groups]
Group(name, value) == [name |-> name, value |-> value]

\* The candidate collectMatchesFromText takes from one match: with named
\* groups (match.groups), the group named like the field, else the first
\* named group that is not null; else String(match[1]) when the pattern has
\* a capture group; else match[0].
CandidateOf(found, fieldName) ==
    LET named == SelectSeq(found.groups, LAMBDA g : g.name # "")
        own == SelectSeq(found.groups, LAMBDA g : g.name = fieldName)
        fallbackGroup == SelectSeq(found.groups,
                                   LAMBDA g : g.name # "" /\ ~IsNullish(g.value))
        fromNamed == IF named = <<>> THEN Undefined
                     ELSE IF own # <<>> /\ ~IsNullish(own[1].value) THEN own[1].value
                     ELSE IF fallbackGroup # <<>> THEN fallbackGroup[1].value
                     ELSE Undefined
        fromFirst == IF IsNullish(fromNamed) /\ found.groups # <<>>
                     THEN Str(StringOf(found.groups[1].value))
                     ELSE fromNamed
    IN  Coalesce(fromFirst, Str(found.whole))

\* collectMatchesFromText(regex, content, fieldName, config, pageNumber): one
\* record per match of the pattern whose candidate is not empty.  The
\* pattern and the text are represented by the matches of the pattern in the
\* text, in order.
collectMatchesFromText(found, fieldName, pageNumber) ==
    LET kept == SelectSeq(found, LAMBDA each : CandidateOf(each, fieldName).s # <<>>) IN
    [i \in 1..Len(kept) |-> createMatchRecord(CandidateOf(kept[i], fieldName).s, pageNumber)]

\* a collection that keeps every match, repeated texts included
KeepEvery(matches, known) == matches
\* if (seen.has(match.normalized)) continue; seen.add(match.normalized);
\* pageMatches.push(match)
RECURSIVE DropSeen(_, _)
DropSeen(matches, known) ==
    IF matches = <<>> THEN <<>>
    ELSE IF Head(matches).normalized \in known THEN DropSeen(Tail(matches), known)
    ELSE <<Head(matches)>> \o DropSeen(Tail(matches), known \cup {Head(matches).normalized})

\* the matches of all pages, in page order
RECURSIVE MatchesOfPages(_, _, _)
MatchesOfPages(pages, fieldName, firstPageNumber) ==
    IF pages = <<>> THEN <<>>
    ELSE collectMatchesFromText(Head(pages), fieldName, firstPageNumber)
         \o MatchesOfPages(Tail(pages), fieldName, firstPageNumber + 1)

\* collectMatchesForPattern(pattern, ...): nothing for a pattern buildRegExp
\* rejects; the page matches without repeated texts; when no page matches,
\* the matches in the whole document
collectMatchesForPattern(pattern, fieldName) ==
    IF ~pattern.valid THEN <<>>
    ELSE IF DropSeen(MatchesOfPages(pattern.pages, fieldName, 1), {}) # <<>>
         THEN DropSeen(MatchesOfPages(pattern.pages, fieldName, 1), {})
         ELSE DropSeen(collectMatchesFromText(pattern.doc, fieldName, Undefined), {})

\* for (const pattern of patterns) { ...; if (result.length > 0) { matches =
\* result; break; } }
RECURSIVE FirstResult(_, _)
FirstResult(patterns, fieldName) ==
    IF patterns = <<>> THEN <<>>
    ELSE IF collectMatchesForPattern(Head(patterns), fieldName) # <<>>
         THEN collectMatchesForPattern(Head(patterns), fieldName)
         ELSE FirstResult(Tail(patterns), fieldName)

\* coerceMatchValues(matches, template, config), for a template with the
\* default options
coerceMatchValues(matches, config) ==
    IF config.type = "none" THEN matches
    ELSE [i \in 1..Len(matches) |->
            [matches[i] EXCEPT !.value = coerceValue(matches[i].raw.s, config.type, ".", <<>>)]]

\* matches.reduce((acc, match) => typeof match.value === 'number' &&
\* Number.isFinite(match.value) ? acc + match.value : acc, 0)
RECURSIVE SumOfNumbers(_)
SumOfNumbers(matches) ==
    IF matches = <<>> THEN 0
    ELSE (IF IsNumber(Head(matches).value) THEN Head(matches).value.n ELSE 0)
         + SumOfNumbers(Tail(matches))

\* matches.map((match) => match.raw).join(' ')
RECURSIVE JoinRaw(_)
JoinRaw(matches) ==
    IF matches = <<>> THEN <<>>
    ELSE Head(matches).raw.s \o (IF Len(matches) > 1 THEN <<" ">> ELSE <<>>)
         \o JoinRaw(Tail(matches))

\* applyGrouping(matches, config)
applyGrouping(matches, config) ==
    IF config.group = "none" \/ matches = <<>> THEN matches
    ELSE CASE config.group = "first" -> <<matches[1]>>
           [] config.group = "last" -> <<matches[Len(matches)]>>
           [] config.group = "sum" ->
                << [raw |-> Str(NumberToString(SumOfNumbers(matches))),
                    normalized |-> normalizeMatch(NumberToString(SumOfNumbers(matches))),
                    value |-> Num(SumOfNumbers(matches)),
                    pageNumber |-> matches[1].pageNumber] >>
           [] config.group = "concat" ->
                << [raw |-> Str(JoinRaw(matches)),
                    normalized |-> normalizeMatch(JoinRaw(matches)),
                    value |-> Str(JoinRaw(matches)),
                    pageNumber |-> matches[1].pageNumber] >>
           [] OTHER -> matches

\* the EbmExtractedField built from the grouped matches: primary = matches[0]
FieldOf(matches) ==
    IF matches = <<>>
    THEN [t |-> "field", value |-> Undefined, raw |-> Undefined, pageNumber |-> Undefined,
          matches |-> matches]
    ELSE [t |-> "field", value |-> matches[1].value, raw |-> matches[1].raw,
          pageNumber |-> matches[1].pageNumber, matches |-> matches]

\* extractField(fieldName, config, template, preparedContent, preparedPages)
\* for a field with parser 'regex' and a regex configuration
extractField(fieldName, config, patterns) ==
    FieldOf(applyGrouping(coerceMatchValues(FirstResult(patterns, fieldName), config), config))

\* the name of the template field that is extracted
FieldNameExplored == "total"

\* the texts a pattern captures in the documents explored
CapturedTexts == {<<"1", "0">>, <<"2", "0">>, <<"3", "0">>, <<"x">>}

\* matches of a pattern without capture group
WholeMatches == { RegExpMatch(text, <<>>) : text \in CapturedTexts }

\* matches of patterns with capture groups: a numbered group that captured
\* or did not take part, a group named like the field after another named
\* group, named groups of which the first or all did not take part, a named
\* group after a numbered one, and a group that captured the empty text
GroupedMatches ==
    { RegExpMatch(<<"t", "1", "0">>, <<Group("", Str(<<"1", "0">>))>>),
      RegExpMatch(<<"2", "0">>, <<Group("", Undefined)>>),
      RegExpMatch(<<"x", "3", "0">>,
                  <<Group("unit", Str(<<"x">>)), Group("total", Str(<<"3", "0">>))>>),
      RegExpMatch(<<"x", "3", "0">>,
                  <<Group("unit", Str(<<"x">>)), Group("amount", Str(<<"3", "0">>))>>),
      RegExpMatch(<<"1", "0">>,
                  <<Group("unit", Undefined), Group("amount", Str(<<"1", "0">>))>>),
      RegExpMatch(<<"3", "0">>, <<Group("unit", Undefined), Group("total", Undefined)>>),
      RegExpMatch(<<"x", "2", "0">>,
                  <<Group("", Str(<<"x">>)), Group("amount", Str(<<"2", "0">>))>>),
      RegExpMatch(<<"x">>, <<Group("", Str(<<>>))>>) }

\* what a pattern finds on the two pages of a document
PagesFound ==
    { <<first, second>> : first \in ListsUpTo(WholeMatches, MaxMatches),
                          second \in ListsUpTo(WholeMatches, MaxMatches) }

\* the patterns explored: one that buildRegExp rejects, one that finds
\* nothing, those that find something on the pages, and one that only
\* matches in the whole document
PatternSamples ==
    { [t |-> "pattern", valid |-> FALSE, pages |-> <<<<>>, <<>>>>, doc |-> <<>>] }
    \cup { [t |-> "pattern", valid |-> TRUE, pages |-> found, doc |-> <<>>] : found \in PagesFound }
    \cup { [t |-> "pattern", valid |-> TRUE, pages |-> <<<<>>, <<>>>>,
             doc |-> <<RegExpMatch(<<"1", "0">>, <<>>), RegExpMatch(<<"1", "0">>, <<>>)>>] }
    \cup { [t |-> "pattern", valid |-> TRUE, pages |-> <<<<found>>, <<>>>>, doc |-> <<>>] :
             found \in GroupedMatches }

\* config.regex: one pattern, or one pattern after a pattern without result
PatternLists ==
    { <<pattern>> : pattern \in PatternSamples }
    \cup { <<fruitless, pattern>> :
             fruitless \in {q \in PatternSamples :
                                            ~q.valid \/ (q.pages = <<<<>>, <<>>>> /\ q.doc = <<>>)},
             pattern \in {q \in PatternSamples : q.valid /\ q.pages[1] # <<>>} }

FieldConfigs == [type : {"none", "number"}, group : {"none", "first", "last", "sum", "concat"}]

ExIdle ==
    /\ exPc = "idle"
    /\ exConfig = Undefined
    /\ exPatterns = <<>>
    /\ exField = Undefined

\* a field of the template is about to be extracted
ExInit ==
    /\ exPc = "start"
    /\ exConfig \in FieldConfigs
    /\ exPatterns \in PatternLists
    /\ exField = Undefined

\* fields[fieldName] = extractField(fieldName, config, ...)
ExtractField ==
    /\ exPc = "start"
    /\ exField' = extractField(FieldNameExplored, exConfig, exPatterns)
    /\ exPc' = "done"
    /\ UNCHANGED <<exConfig, exPatterns>>

-----------------------------------------------------------------------------
(* parseEbmQrPayload on one QR text: the encodings and texts explored      *)

\* the values a canonical field takes in the field sets explored
FieldSamples(qrKey) ==
    CASE qrKey = "tin" -> {Str(<<"1", "2", "3", "4", "5", "6", "7", "8", "9">>)}
      [] qrKey = "buyerTin" -> {Str(<<"9", "8", "7", "6", "5", "4", "3", "2", "1">>)}
      [] qrKey = "invoiceNumber" -> {Str(<<"I", "N", "V", "-", "0", "0", "7">>), Str(<<"A", ",", "7">>)}
      [] qrKey = "issueDate" -> {Str(<<"2", "0", "2", "4", "-", "0", "1", "-", "0", "5">>)}
      [] qrKey = "totalAmount" -> {Num(50000)}
      [] qrKey = "vatAmount" -> {Num(7625)}
      [] qrKey = "currency" -> {Str(<<"R", "W", "F">>)}

\* the sets of canonical field values explored: each field absent or one of
\* its samples
FieldSets ==
    [tin : FieldSamples("tin") \cup {Undefined},
     buyerTin : FieldSamples("buyerTin") \cup {Undefined},
     invoiceNumber : FieldSamples("invoiceNumber") \cup {Undefined},
     issueDate : FieldSamples("issueDate") \cup {Undefined},
     totalAmount : FieldSamples("totalAmount") \cup {Undefined},
     vatAmount : FieldSamples("vatAmount") \cup {Undefined},
     currency : FieldSamples("currency") \cup {Undefined}]

\* the key a canonical field is written under
EncodingKey(qrKey) ==
    CASE qrKey = "tin" -> <<"t", "i", "n">>
      [] qrKey = "buyerTin" -> <<"b", "u", "y", "e", "r", "_", "t", "i", "n">>
      [] qrKey = "invoiceNumber" -> <<"i", "n", "v", "o", "i", "c", "e">>
      [] qrKey = "issueDate" -> <<"d", "a", "t", "e">>
      [] qrKey = "totalAmount" -> <<"t", "o", "t", "a", "l">>
      [] qrKey = "vatAmount" -> <<"v", "a", "t">>
      [] qrKey = "currency" -> <<"c", "u", "r", "r", "e", "n", "c", "y">>

\* the fields of a set that have a value, as key/value entries
FieldEntries(fs) ==
    SelectSeq([i \in 1..Len(CanonicalKeys) |-> <<EncodingKey(CanonicalKeys[i]), fs[CanonicalKeys[i]]>>],
              LAMBDA entry : ~IsNullish(entry[2]))

\* the four encodings a QR text can use
Encodings == {"json", "query", "fragment", "tokens"}

\* the entries written in an encoding
Encode(form, pairs, sep, delim) ==
    CASE form = "json" -> JsonText(pairs)
      [] form = "query" -> UrlText(<<"e", "b", "m", ".", "e", "x", "a", "m", "p", "l", "e", ".", "r", "w">>, pairs, <<>>)
      [] form = "fragment" -> UrlText(<<"e", "b", "m", ".", "e", "x", "a", "m", "p", "l", "e", ".", "r", "w">>, <<>>, pairs)
      [] form = "tokens" -> TokensText(pairs, sep, delim)

\* entries of hand-written token texts: aliases of keys, keys with spaces and
\* capitals, an unknown key, values with punctuation
TokenSamples ==
    { <<<<"S", "e", "l", "l", "e", "r", " ", "T", "I", "N">>, Str(<<"1", "2", "3", "-", "4", "5", "6">>)>>, <<<<"r", "e", "c", "e", "i", "p", "t">>, Str(<<"i", "n", "v", " ", "7">>)>>,
      <<<<"n", "o", "t", "e">>, Str(<<"x">>)>>, <<<<"T", "o", "t", "a", "l">>, Str(<<"5", "0", "0", "0", ".", "5">>)>> }

\* what a QR text is written from: entries, an encoding, and for tokens the
\* separator and the delimiter
ParseSources ==
    { [kind |-> "fieldSet", form |-> form, pairs |-> FieldEntries(fs),
       sep |-> <<":">>, delim |-> <<";">>] : form \in Encodings, fs \in FieldSets }
    \cup { [kind |-> "tokens", form |-> "tokens", pairs |-> pairs, sep |-> sep, delim |-> delim] :
             pairs \in ListsUpTo(TokenSamples, MaxTokenPairs),
             sep \in {<<":">>, <<"=">>, <<" ", ":", " ">>},
             delim \in {<<";">>, <<",">>, <<"|">>, <<"\n">>, <<";", " ", ";">>} }

PrIdle ==
    /\ prPc = "idle"
    /\ prSource = Undefined
    /\ prText = Undefined
    /\ prPayload = Undefined

\* a QR text has been decoded
PrInit ==
    /\ prPc = "start"
    /\ prSource \in ParseSources
    /\ prText = Encode(prSource.form, prSource.pairs, prSource.sep, prSource.delim)
    /\ prPayload = Undefined

\* const payload = parseEbmQrPayload(raw)
ParseQrText ==
    /\ prPc = "start"
    /\ prPayload' = parseEbmQrPayload(prText)
    /\ prPc' = "done"
    /\ UNCHANGED <<prSource, prText>>

-----------------------------------------------------------------------------
(* validateEbmInvoice                                                      *)

\* file.fileExtension of the files explored
FileExtensions == { <<"p", "d", "f">>, <<"P", "D", "F">>, <<"p", "n", "g">> }

VlIdle ==
    /\ runPc = "idle"
    /\ fileExtension = <<>>
    /\ errors = <<>>
    /\ snapshot = Undefined
    /\ candidates = <<>>
    /\ templates = Undefined
    /\ extraction = Undefined
    /\ qrDetections = <<>>
    /\ parsedPayload = Undefined
    /\ enrichment = Undefined
    /\ qrPayload = Undefined
    /\ comparisons = <<>>
    /\ summary = Undefined
    /\ failures = {}

\* validateEbmInvoice(file, options) is entered
VlInit ==
    /\ runPc = "loadSnapshot"
    /\ fileExtension \in FileExtensions
    /\ errors = <<>>
    /\ snapshot = Undefined
    /\ candidates = <<>>
    /\ templates = Undefined
    /\ extraction = Undefined
    /\ qrDetections = <<>>
    /\ parsedPayload = Undefined
    /\ enrichment = Undefined
    /\ qrPayload = Undefined
    /\ comparisons = <<>>
    /\ summary = Undefined
    /\ failures = {}

\* const snapshot = await loadTextSnapshot(file.fileId): null on every failure
LoadTextSnapshot ==
    /\ runPc = "loadSnapshot"
    /\ \/ /\ snapshot' = Undefined
          /\ errors' = Append(errors, "Failed to load invoice text snapshot.")
          /\ failures' = failures \cup {"snapshot"}
       \/ /\ \E text \in SnapshotContents : snapshot' = [t |-> "snapshot", content |-> text]
          /\ UNCHANGED <<errors, failures>>
    /\ runPc' = "selectTemplate"
    /\ UNCHANGED <<fileExtension, candidates, templates, extraction, qrDetections, parsedPayload,
                   enrichment, qrPayload, comparisons, summary>>

\* template.matchesInput(content) of a loaded template: "throws" when
\* prepareInput cannot compile a replace pattern
TemplateAccepts(template, text) ==
    IF template.invalidReplace THEN "throws"
    ELSE IF matchesInput(template.options,
                [i \in 1..Len(template.keywords) |->
                    applyTransformations(template.options, template.keywords[i])],
                [i \in 1..Len(template.excludeKeywords) |->
                    applyTransformations(template.options, template.excludeKeywords[i])],
                text)
         THEN "matches" ELSE "rejects"

\* the loop of selectTemplateForSnapshot: the first candidate that matches,
\* undefined (null) when none does; a candidate whose evaluation throws is skipped
\* a scan that keeps the last candidate that matches
RECURSIVE LastMatching(_, _)
LastMatching(list, text) ==
    IF list = <<>> THEN Undefined
    ELSE IF TemplateAccepts(list[Len(list)], text) = "matches" THEN list[Len(list)]
    ELSE LastMatching(SubSeq(list, 1, Len(list) - 1), text)
RECURSIVE FirstMatching(_, _)
FirstMatching(list, text) ==
    IF list = <<>> THEN Undefined
    ELSE IF TemplateAccepts(Head(list), text) = "matches" THEN Head(list)
    ELSE FirstMatching(Tail(list), text)

\* the candidates evaluated before the loop returned
RECURSIVE Evaluated(_, _)
Evaluated(list, text) ==
    IF list = <<>> THEN <<>>
    ELSE IF TemplateAccepts(Head(list), text) = "matches" THEN <<Head(list)>>
    ELSE <<Head(list)>> \o Evaluated(Tail(list), text)

\* a run that records nothing when no template matched
NoTemplateUnrecorded(snap, chosen) == <<>>
\* if (snapshot && !templates) errors.push('No EBM template matched the invoice text.')
NoTemplateErrors(snap, chosen) ==
    IF ~IsNullish(snap) /\ IsNullish(chosen)
    THEN <<"No EBM template matched the invoice text.">>
    ELSE <<>>

\* const templates = snapshot ? await selectTemplateForSnapshot(snapshot) : null
\* loadEbmTemplates() is awaited outside the try of the loop: when it rejects
\* (unreadable directory, malformed YAML, missing template_name, a throwing
\* constructor) the rejection leaves validateEbmInvoice.
SelectTemplateForSnapshot ==
    /\ runPc = "selectTemplate"
    /\ \/ /\ IsNullish(snapshot)
          /\ templates' = Undefined
          /\ runPc' = "extract"
          /\ UNCHANGED <<candidates, errors, failures>>
       \/ /\ ~IsNullish(snapshot)
          /\ templates' = Undefined
          /\ runPc' = "threw"
          /\ failures' = failures \cup {"templateLoad"}
          /\ UNCHANGED <<candidates, errors>>
       \/ /\ ~IsNullish(snapshot)
          /\ \E loaded \in CandidateLists :
                LET chosen == FirstMatching(loaded, snapshot.content)
                    seenCandidates == Evaluated(loaded, snapshot.content)
                    evalFailed == \E i \in 1..Len(seenCandidates) :
                        TemplateAccepts(seenCandidates[i], snapshot.content) = "throws"
                IN  /\ candidates' = loaded
                    /\ templates' = chosen
                    /\ errors' = errors \o NoTemplateErrors(snapshot, chosen)
                    /\ failures' = failures
                                   \cup (IF evalFailed THEN {"templateEvaluation"} ELSE {})
                                   \cup (IF IsNullish(chosen) THEN {"noTemplate"} ELSE {})
          /\ runPc' = "extract"
    /\ UNCHANGED <<fileExtension, snapshot, extraction, qrDetections, parsedPayload,
                   enrichment, qrPayload, comparisons, summary>>

\* the extractions extractTextWithTemplate(template, snapshot) can return:
\* one EbmExtractedField per field of the template
ExtractionsOf(template) ==
    LET names == SeqToSet(template.fieldNames) IN
    { [t |-> "extraction", templateName |-> template.templateName,
       names |-> template.fieldNames, fields |-> f] :
        f \in { g \in [names -> UNION {ExtractChoices(k) : k \in SeqToSet(CanonicalKeys) \cup {Null}}] :
                  \A n \in names : g[n] \in ExtractChoices(FieldMappingGet(ToLowerCase(n))) } }

\* const extraction = snapshot && templates
\*     ? extractTextWithTemplate(templates, snapshot) : undefined
ExtractTextWithTemplate ==
    /\ runPc = "extract"
    /\ IF ~IsNullish(snapshot) /\ ~IsNullish(templates)
       THEN extraction' \in ExtractionsOf(templates)
       ELSE extraction' = Undefined
    /\ runPc' = "download"
    /\ UNCHANGED <<fileExtension, candidates, errors, snapshot, templates, qrDetections, parsedPayload,
                   enrichment, qrPayload, comparisons, summary, failures>>

\* the catch of the QR stage of validateEbmInvoice: an exception inside the
\* try becomes an entry of errors
QrStageFailed(stage) ==
    /\ errors' = Append(errors, "Failed to decode QR codes from the invoice.")
    /\ failures' = failures \cup {stage}
    /\ runPc' = "finish"

\* if (file.fileExtension.toLowerCase() !== 'pdf') ... else
\*     pdfBuffer = await serverFileStorage.download(originalKey)
Download ==
    /\ runPc = "download"
    /\ \/ /\ ToLowerCase(fileExtension) # <<"p", "d", "f">>
          /\ errors' = Append(errors, "QR validation currently supports PDF invoices only.")
          /\ failures' = failures \cup {"fileType"}
          /\ runPc' = "finish"
       \/ /\ ToLowerCase(fileExtension) = <<"p", "d", "f">>
          /\ QrStageFailed("download")
       \/ /\ ToLowerCase(fileExtension) = <<"p", "d", "f">>
          /\ runPc' = "decode"
          /\ UNCHANGED <<errors, failures>>
    /\ UNCHANGED <<fileExtension, candidates, snapshot, templates, extraction, qrDetections,
                   parsedPayload, enrichment, qrPayload, comparisons, summary>>

\* what decodeQrCodesFromPdf can resolve to: no code, the code of one page,
\* or the (different) codes of two pages
BlankQrText == TokensText(<<>>, <<":">>, <<";">>)
DetectionLists ==
    {<<>>}
    \cup { <<[pageNumber |-> 1, scale |-> DEFAULT_SCALES[1], text |-> q]>> : q \in QrTextSamples }
    \cup { <<[pageNumber |-> 1, scale |-> DEFAULT_SCALES[1], text |-> q],
             [pageNumber |-> 2, scale |-> DEFAULT_SCALES[1], text |-> BlankQrText]>> :
           q \in { TokensText(pairs, <<":">>, <<";">>) :
                     pairs \in {l \in ListsUpTo(QrPairSamples, MaxQrPairs) :
                                  /\ Len(l) = MaxQrPairs
                                  /\ \A i \in 1..Len(l) : l[i][1] = <<"t", "i", "n">>} } }

\* a run that records nothing when the decoder found no code
NoQrCodeUnrecorded(detections) == <<>>
\* if (qrDetections.length === 0) errors.push('No QR codes detected in the invoice.')
NoQrCodeErrors(detections) ==
    IF Len(detections) = 0 THEN <<"No QR codes detected in the invoice.">> ELSE <<>>

\* qrDetections = await decodeQrCodesFromPdf(pdfBuffer, options.qr)
DecodeQrCodes ==
    /\ runPc = "decode"
    /\ \/ /\ QrStageFailed("decode")
          /\ UNCHANGED qrDetections
       \/ /\ qrDetections' = <<>>
          /\ errors' = errors \o NoQrCodeErrors(qrDetections')
          /\ failures' = failures \cup {"noQrCode"}
          /\ runPc' = "finish"
       \/ /\ \E detections \in DetectionLists \ {<<>>} : qrDetections' = detections
          /\ runPc' = "parse"
          /\ UNCHANGED <<errors, failures>>
    /\ UNCHANGED <<fileExtension, candidates, snapshot, templates, extraction, parsedPayload,
                   enrichment, qrPayload, comparisons, summary>>

\* qrPayload = parseEbmQrPayload(qrDetections[0].text)
ParseEbmQrPayload ==
    /\ runPc = "parse"
    /\ parsedPayload' = parseEbmQrPayload(qrDetections[1].text)
    /\ qrPayload' = parsedPayload'
    /\ runPc' = "enrich"
    /\ UNCHANGED <<fileExtension, candidates, errors, snapshot, templates, extraction, qrDetections,
                   enrichment, comparisons, summary, failures>>

\* url = new URL(payload.raw) succeeds and
\* RRA_QR_HOSTNAMES.has(url.hostname.toLowerCase())
HasRraHostname(raw) ==
    /\ ~IsNullish(raw.url)
    /\ ToLowerCase(raw.url.host) \in RRA_QR_HOSTNAMES

\* how the awaited fetch of the receipt page can settle without a receipt:
\* fetch rejects (network exception), the response is not ok, or the page has
\* no receipt container (parseRraReceiptHtml returns null)
LookupFailures == {"fetchRejected", "responseNotOk", "noReceiptContainer"}

\* const enrichment = await attemptRraQrEnrichment(qrPayload), up to its
\* `await fetch(url.toString())`: null at once when the raw text is not a URL
\* or its host is not recognised
AttemptRraQrEnrichment ==
    /\ runPc = "enrich"
    /\ \/ /\ ~HasRraHostname(qrPayload.raw)
          /\ enrichment' = Undefined
          /\ runPc' = "merge"
       \/ /\ HasRraHostname(qrPayload.raw)
          /\ UNCHANGED enrichment
          /\ runPc' = "fetch"
    /\ UNCHANGED <<fileExtension, candidates, errors, snapshot, templates, extraction, qrDetections,
                   parsedPayload, qrPayload, comparisons, summary, failures>>

\* the awaited fetch settles and attemptRraQrEnrichment returns: null when
\* the fetch rejected, the response was not ok or the page had no receipt
\* container (logged only), else what parseRraReceiptHtml read from the page
FetchSettles ==
    /\ runPc = "fetch"
    /\ \/ /\ \E cause \in LookupFailures :
                failures' = failures \cup {"enrichment", cause}
          /\ enrichment' = Undefined
       \/ /\ enrichment' \in ReceiptPartials
          /\ UNCHANGED failures
    /\ runPc' = "merge"
    /\ UNCHANGED <<fileExtension, candidates, errors, snapshot, templates, extraction, qrDetections,
                   parsedPayload, qrPayload, comparisons, summary>>

\* qrPayload = mergeQrPayload(qrPayload, enrichment)
MergeQrPayload ==
    /\ runPc = "merge"
    /\ qrPayload' = mergeQrPayload(qrPayload, enrichment)
    /\ runPc' = "finish"
    /\ UNCHANGED <<fileExtension, candidates, errors, snapshot, templates, extraction, qrDetections,
                   parsedPayload, enrichment, comparisons, summary, failures>>

\* the payload after the currency of the text was copied into a payload
\* without currency (validateEbmInvoice, after the QR stage)
WithTextCurrency(payload, extr) ==
    IF ~IsNullish(payload) /\ ~IsNullish(extr) /\ ~Truthy(payload.currency)
    THEN LET currencyField == IF <<"c", "u", "r", "r", "e", "n", "c", "y">> \in DOMAIN extr.fields
                              THEN extr.fields[<<"c", "u", "r", "r", "e", "n", "c", "y">>]
                              ELSE Undefined
             currencyValue == IF IsNullish(currencyField) THEN Undefined
                              ELSE Coalesce(currencyField.value, currencyField.raw)
             normalizedCurrency == normalizeCurrency(currencyValue)
         IN  IF Truthy(normalizedCurrency)
             THEN [payload EXCEPT !.currency = normalizedCurrency,
                                  !.additional["currencySource"] =
                                      Str(<<"t", "e", "x", "t">>)]
             ELSE payload
    ELSE payload

\* the rest of validateEbmInvoice: the 'no recognizable fields' error, the
\* currency of the text, computeComparisons, buildSummary, return outcome
ReturnOutcome ==
    /\ runPc = "finish"
    /\ errors' = IF /\ ~IsNullish(qrPayload)
                    /\ ~Truthy(qrPayload.tin)
                    /\ ~Truthy(qrPayload.invoiceNumber)
                    /\ ~Truthy(qrPayload.totalAmount)
                 THEN Append(errors, "QR payload did not include recognizable invoice fields.")
                 ELSE errors
    /\ qrPayload' = WithTextCurrency(qrPayload, extraction)
    /\ comparisons' = computeComparisons(qrPayload', extraction)
    /\ summary' = buildSummary(comparisons', errors')
    /\ runPc' = "returned"
    /\ UNCHANGED <<fileExtension, candidates, snapshot, templates, extraction, qrDetections,
                   parsedPayload, enrichment, failures>>

-----------------------------------------------------------------------------
(* loadEbmTemplates and resetTemplateCache (template.ts)                   *)

\* the callers of loadEbmTemplates that may be in flight together
Callers == 1..NumCallers

ChIdle ==
    /\ cachedTemplates = Undefined
    /\ loadPc = <<>>
    /\ received = <<>>
    /\ callsMade = <<>>
    /\ directoryReads = 0
    /\ listsBuilt = 0
    /\ sinceReset = {}
    /\ resets = 0

\* let cachedTemplates: EbmTemplate[] | null = null
ChInit ==
    /\ cachedTemplates = Undefined
    /\ loadPc = [c \in Callers |-> "idle"]
    /\ received = [c \in Callers |-> Undefined]
    /\ callsMade = [c \in Callers |-> 0]
    /\ directoryReads = 0
    /\ listsBuilt = 0
    /\ sinceReset = {}
    /\ resets = 0

\* loadEbmTemplates() up to its first await: if (cachedTemplates) return
\* cachedTemplates; otherwise discoverTemplateFiles(TEMPLATE_ROOT) starts
\* reading the directory.  Only a finished load is shared: a load in flight
\* leaves cachedTemplates null.
CallLoadEbmTemplates(c) ==
    /\ loadPc[c] = "idle"
    /\ callsMade[c] < MaxCalls
    /\ callsMade' = [callsMade EXCEPT ![c] = @ + 1]
    /\ sinceReset' = sinceReset \cup {c}
    /\ IF ~IsNullish(cachedTemplates)
       THEN /\ received' = [received EXCEPT ![c] = cachedTemplates]
            /\ loadPc' = [loadPc EXCEPT ![c] = "returned"]
            /\ UNCHANGED directoryReads
       ELSE /\ received' = [received EXCEPT ![c] = Undefined]
            /\ loadPc' = [loadPc EXCEPT ![c] = "loading"]
            /\ directoryReads' = directoryReads + 1
    /\ UNCHANGED <<cachedTemplates, listsBuilt, resets>>

\* cachedTemplates = loaded.filter(...); return cachedTemplates: every
\* completed load builds a new array of new EbmTemplate objects
LoadCompletes(c) ==
    /\ loadPc[c] = "loading"
    /\ listsBuilt' = listsBuilt + 1
    /\ cachedTemplates' = [t |-> "templateList", id |-> listsBuilt']
    /\ received' = [received EXCEPT ![c] = cachedTemplates']
    /\ loadPc' = [loadPc EXCEPT ![c] = "returned"]
    /\ UNCHANGED <<callsMade, directoryReads, sinceReset, resets>>

\* readdir, readFile, YAML.parse or loadTemplateFile throws: the call rejects
\* and cachedTemplates is left as it is
LoadRejects(c) ==
    /\ loadPc[c] = "loading"
    /\ loadPc' = [loadPc EXCEPT ![c] = "rejected"]
    /\ directoryReads' = IF c \in sinceReset THEN directoryReads - 1 ELSE directoryReads
    /\ UNCHANGED <<cachedTemplates, received, callsMade, listsBuilt, sinceReset, resets>>

\* the caller has its answer and may call again
CallerGoesOn(c) ==
    /\ loadPc[c] \in {"returned", "rejected"}
    /\ callsMade[c] < MaxCalls
    /\ loadPc' = [loadPc EXCEPT ![c] = "idle"]
    /\ sinceReset' = sinceReset \ {c}
    /\ UNCHANGED <<cachedTemplates, received, callsMade, directoryReads, listsBuilt, resets>>

\* resetTemplateCache(): cachedTemplates = null
ResetTemplateCache ==
    /\ resets < MaxResets
    /\ cachedTemplates' = Undefined
    /\ resets' = resets + 1
    /\ directoryReads' = 0
    /\ sinceReset' = {}
    /\ UNCHANGED <<loadPc, received, callsMade, listsBuilt>>

-----------------------------------------------------------------------------
(* decodeQrCodesFromPdf                                                    *)

\* options.scales?.length ? options.scales : DEFAULT_SCALES
ScaleOptions ==
    {<<>>} \cup {SubSeq(DEFAULT_SCALES, 1, n) : n \in 1..MaxScales}

\* options.maxPages left undefined
NoMaxPages == 0 - 1

ChosenScales(optScales) == IF Len(optScales) > 0 THEN optScales ELSE DEFAULT_SCALES

QrIdle ==
    /\ qrPc = "idle"
    /\ numPages = 0
    /\ maxPages = 0
    /\ unique = TRUE
    /\ scales = <<>>
    /\ pageIndex = 0
    /\ scaleIdx = 0
    /\ seen = {}
    /\ codes = <<>>
    /\ cleanup = FALSE
    /\ liveCanvases = 0
    /\ decodedPages = {}
    /\ attempts = 0
    /\ lastOutcome = "none"

\* The call: options are read, the PDF is about to be opened.
QrInit ==
    /\ qrPc = "open"
    /\ numPages \in 1..MaxPages
    /\ \E optMaxPages \in {NoMaxPages} \cup (0..MaxPages) :
          maxPages = IF optMaxPages = NoMaxPages THEN numPages ELSE optMaxPages
    /\ unique \in BOOLEAN
    /\ \E optScales \in ScaleOptions : scales = ChosenScales(optScales)
    /\ pageIndex = 0
    /\ scaleIdx = 0
    /\ seen = {}
    /\ codes = <<>>
    /\ cleanup = FALSE
    /\ liveCanvases = 0
    /\ decodedPages = {}
    /\ attempts = 0
    /\ lastOutcome = "none"

\* for (pageIndex = 1; pageIndex <= doc.numPages && pageIndex <= maxPages; pageIndex++)
PageInRange(p) == p <= numPages /\ p <= maxPages

\* Where control goes when the scale loop of page p is left at scale index s
\* without a break: the next scale of the page, else the first scale of the
\* next page, else the end of the page loop.
NextAttempt(p, s) ==
    IF s < Len(scales) THEN [pc |-> "render", page |-> p, scale |-> s + 1]
    ELSE IF PageInRange(p + 1) THEN [pc |-> "render", page |-> p + 1, scale |-> 1]
    ELSE [pc |-> "finish", page |-> p + 1, scale |-> 0]

\* Where control goes on `break`: the scale loop of page p is abandoned.
AfterBreak(p) ==
    IF PageInRange(p + 1) THEN [pc |-> "render", page |-> p + 1, scale |-> 1]
    ELSE [pc |-> "finish", page |-> p + 1, scale |-> 0]

\* The inner catch of the scale loop: the error is logged and the loop goes on.
CatchAttemptErrorRethrows == "rethrow"
CatchAttemptError == "continue"

\* if (!unique || !seen.has(text))
SeenCheckDropped(text) == TRUE
ShouldRecord(text) == ~unique \/ text \notin seen

\* pdfjs.getDocument(docInit).promise resolves, or rejects for bytes that are not a PDF.
GetDocument ==
    /\ qrPc = "open"
    /\ \/ /\ qrPc' = IF PageInRange(1) THEN "render" ELSE "finish"
          /\ pageIndex' = 1
          /\ scaleIdx' = IF PageInRange(1) THEN 1 ELSE 0
       \/ /\ qrPc' = "rejected"
          /\ UNCHANGED <<pageIndex, scaleIdx>>
    /\ UNCHANGED <<numPages, maxPages, unique, scales, seen, codes, cleanup,
                   liveCanvases, decodedPages, attempts, lastOutcome>>

\* Leaving an attempt through the catch block and the `finally` after it;
\* `canvases` is the number of live canvases the attempt leaves behind.
AttemptThrew(canvases) ==
    /\ lastOutcome' = "threw"
    /\ liveCanvases' = canvases
    /\ cleanup' = FALSE
    /\ IF CatchAttemptError = "continue"
       THEN LET n == NextAttempt(pageIndex, scaleIdx) IN
            /\ qrPc' = n.pc
            /\ pageIndex' = n.page
            /\ scaleIdx' = n.scale
       ELSE /\ qrPc' = "rejected"
            /\ UNCHANGED <<pageIndex, scaleIdx>>
    /\ UNCHANGED <<seen, codes, decodedPages>>

\* renderPageAtScale(doc, pageIndex, scale): getPage, canvasFactory.create,
\* page.render, getImageData.  It resolves with the bitmap and its cleanup
\* callback, or throws before the canvas exists (getPage), or throws after it
\* was created (render, getImageData), when no cleanup callback is returned
\* and the `finally` of the caller has nothing to run.
RenderPageAtScale ==
    /\ qrPc = "render"
    /\ attempts' = attempts + 1
    /\ \/ /\ qrPc' = "decode"
          /\ cleanup' = TRUE
          /\ liveCanvases' = liveCanvases + 1
          /\ lastOutcome' = "rendered"
          /\ UNCHANGED <<pageIndex, scaleIdx, seen, codes, decodedPages>>
       \/ AttemptThrew(liveCanvases)
       \/ AttemptThrew(liveCanvases + 1)
    /\ UNCHANGED <<numPages, maxPages, unique, scales>>

\* decodeBitmap(reader, bitmap): the text, null on NotFoundException, any
\* other error is rethrown.
ZxingResults == QrTexts \cup {Null, "error"}
\* decodeWithJsqr(data, width, height): result?.data ?? null, or an exception.
JsqrResults == QrTexts \cup {Null, "error"}

\* The rest of the attempt: both decoders, the `if (text)` block and the
\* `finally` that runs the cleanup callback.
DecodeRendered ==
    /\ qrPc = "decode"
    /\ \E z \in ZxingResults, j \in JsqrResults :
          LET threw == z = "error" \/ (z = Null /\ j = "error")
              text == IF z # Null THEN z ELSE j
          IN  IF threw
              THEN AttemptThrew(liveCanvases - 1)
              ELSE /\ liveCanvases' = liveCanvases - 1
                   /\ cleanup' = FALSE
                   /\ IF text # Null
                      THEN /\ decodedPages' = decodedPages \cup {pageIndex}
                           /\ IF ShouldRecord(text)
                              THEN LET n == AfterBreak(pageIndex) IN
                                   /\ seen' = seen \cup {text}
                                   /\ codes' = Append(codes,
                                         [pageNumber |-> pageIndex,
                                          scale |-> scales[scaleIdx],
                                          text |-> text])
                                   /\ lastOutcome' = "recorded"
                                   /\ qrPc' = n.pc
                                   /\ pageIndex' = n.page
                                   /\ scaleIdx' = n.scale
                              ELSE LET n == NextAttempt(pageIndex, scaleIdx) IN
                                   /\ lastOutcome' = "duplicate"
                                   /\ qrPc' = n.pc
                                   /\ pageIndex' = n.page
                                   /\ scaleIdx' = n.scale
                                   /\ UNCHANGED <<seen, codes>>
                      ELSE LET n == NextAttempt(pageIndex, scaleIdx) IN
                           /\ lastOutcome' = "nocode"
                           /\ qrPc' = n.pc
                           /\ pageIndex' = n.page
                           /\ scaleIdx' = n.scale
                           /\ UNCHANGED <<seen, codes, decodedPages>>
    /\ UNCHANGED <<numPages, maxPages, unique, scales, attempts>>

\* finally { await doc.cleanup(); await doc.destroy(); } ... return codes
FinishDecode ==
    /\ qrPc = "finish"
    /\ qrPc' = "resolved"
    /\ UNCHANGED <<numPages, maxPages, unique, scales, pageIndex, scaleIdx, seen,
                   codes, cleanup, liveCanvases, decodedPages, attempts, lastOutcome>>

-----------------------------------------------------------------------------
(* EbmValidatorAgent.searchAndAnswer (ebmValidatorAgent.ts)                *)

\* JavaScript arrays, and objects with and without a property 'text'
ArrayOf(items) == [t |-> "array", items |-> items]
ObjectWithText(v) == [t |-> "object", text |-> v]
PlainObject == [t |-> "object"]
\* a promise that rejected
Rejected == [t |-> "rejected"]

\* what one item of an array content contributes to the joined string
ItemText(item) ==
    IF IsString(item) THEN item.s
    ELSE IF item.t = "object" /\ "text" \in DOMAIN item /\ IsString(item.text)
    THEN item.text.s
    ELSE <<>>
RECURSIVE JoinItems(_)
JoinItems(items) ==
    IF items = <<>> THEN <<>> ELSE ItemText(Head(items)) \o JoinItems(Tail(items))

\* normaliseLlmContent(content): string | null
normaliseLlmContent(value) ==
    IF IsString(value) THEN value
    ELSE IF value.t = "array" THEN Str(JoinItems(value.items))
    ELSE IF value.t = "object" /\ "text" \in DOMAIN value
    THEN IF IsString(value.text) THEN value.text ELSE Undefined
    ELSE Undefined

\* the fixed texts of the error events
NoFilesMessage == <<"Attach at least one PDF invoice to run the EBM validator.">>
NotLocatedMessage ==
    <<"No attached PDF invoice could be located. Upload a Rwanda EBM PDF and retry.">>
ValidationFailedMessage == <<"Failed to validate the attached invoice. Please try again.">>
UnexpectedMessage == <<"An unexpected error occurred during validation.">>

\* the summary headlines of the outcomes validateEbmInvoice resolves to
Headlines == {"verified", "issues"}
\* formatValidationMessage(outcome) and buildValidationSources(outcome): a
\* text and a document list determined by the outcome
formatValidationMessage(headline) == <<"formatted ", headline>>
buildValidationSources(headline) == <<"sources of ", headline>>

\* emitter.emit('data', JSON.stringify({ type, data })) and emitter.emit('end')
Data(type, data) == [event |-> "data", type |-> type, data |-> data]
End == [event |-> "end"]

\* the text of the 'response' event: the trimmed narrative when the model
\* answered with non-blank content, the formatter's text otherwise
MessageText(headline, response) ==
    LET normalised ==
            IF response.t = "rejected" THEN Undefined ELSE normaliseLlmContent(response)
    IN  IF ~IsNullish(normalised) /\ Len(Trim(normalised.s)) > 0
        THEN Trim(normalised.s)
        ELSE formatValidationMessage(headline)

\* the file id lists explored: none passed, and the first files of f1, f2, ...
FileNames == <<"f1", "f2", "f3", "f4", "f5">>
FileIdLists ==
    {Undefined} \cup {ArrayOf(SubSeq(FileNames, 1, n)) : n \in 0..MaxFiles}

\* what the language model's response holds in 'content', or its rejection
LlmResponses ==
    { Str(<<"o", "k">>), Str(<<" ", "o", "k", "\n">>), Str(<<>>), Str(<<" ">>),
      ArrayOf(<<Str(<<"o">>), ObjectWithText(Str(<<"k">>))>>),
      ArrayOf(<<ObjectWithText(Num(1)), PlainObject, Undefined>>),
      ObjectWithText(Str(<<"o", "k">>)), ObjectWithText(Undefined), PlainObject,
      Undefined, Rejected }

\* how serverFileStorage.exists(buildOriginalKey(fileId, 'pdf')) ends for one
\* file: true, false, a rejection, or buildOriginalKey throwing
StorageAnswers == {"exists", "missing", "existsThrows", "keyThrows"}

\* every listener attached when an event is emitted receives it; an event
\* emitted before the caller attached its listeners is received by nobody
Emit(events) ==
    /\ emitted' = emitted \o events
    /\ observed' = IF caller = "listening" THEN observed \o events ELSE observed

\* where the queued callback stands after its `return` of the no-files case
AfterNoFilesFallsThrough == "resolve"
AfterNoFiles == "done"

AgIdle ==
    /\ agPc = "idle"
    /\ fileIds = Undefined
    /\ fileIndex = 0
    /\ caller = "idle"
    /\ microtasks = <<>>
    /\ emitted = <<>>
    /\ observed = <<>>
    /\ agOutcome = Undefined
    /\ llmResponse = Undefined

\* a caller is about to run `const emitter = await agent.searchAndAnswer(...)`
AgInit ==
    /\ agPc = "call"
    /\ fileIds \in FileIdLists
    /\ fileIndex = 0
    /\ caller = "calling"
    /\ microtasks = <<>>
    /\ emitted = <<>>
    /\ observed = <<>>
    /\ agOutcome = Undefined
    /\ llmResponse = Undefined

\* searchAndAnswer creates the emitter, queues the callback and returns; the
\* promise of the async method is fulfilled with the emitter at once, so the
\* caller's `await` queues its continuation behind the callback
SearchAndAnswer ==
    /\ agPc = "call"
    /\ agPc' = "queued"
    /\ microtasks' = <<"callback", "continuation">>
    /\ caller' = "awaiting"
    /\ UNCHANGED <<fileIds, fileIndex, emitted, observed, agOutcome, llmResponse>>

\* the queued callback runs up to its first await (or its end): fileIds.length
\* throws for a missing list, an empty list ends the run with an error event
RunQueuedCallback ==
    /\ microtasks # <<>> /\ Head(microtasks) = "callback"
    /\ IF IsNullish(fileIds)
       THEN /\ agPc' = "rejected"
            /\ microtasks' = Tail(microtasks) \o <<"catch">>
            /\ UNCHANGED <<emitted, observed>>
       ELSE IF fileIds.items = <<>>
       THEN /\ Emit(<<Data("error", NoFilesMessage), End>>)
            /\ agPc' = AfterNoFiles
            /\ microtasks' = Tail(microtasks)
       ELSE /\ agPc' = "resolve"
            /\ microtasks' = Tail(microtasks)
            /\ UNCHANGED <<emitted, observed>>
    /\ UNCHANGED <<fileIds, fileIndex, caller, agOutcome, llmResponse>>

\* the caller's await resumes: it holds the emitter and attaches its listeners
CallerAttachesListeners ==
    /\ microtasks # <<>> /\ Head(microtasks) = "continuation"
    /\ caller' = "listening"
    /\ microtasks' = Tail(microtasks)
    /\ UNCHANGED <<agPc, fileIds, fileIndex, emitted, observed, agOutcome, llmResponse>>

\* the .catch handler of the rejected run
CatchUnexpected ==
    /\ microtasks # <<>> /\ Head(microtasks) = "catch"
    /\ Emit(<<Data("error", UnexpectedMessage), End>>)
    /\ agPc' = "done"
    /\ microtasks' = Tail(microtasks)
    /\ UNCHANGED <<fileIds, fileIndex, caller, agOutcome, llmResponse>>

\* resolvePdfAttachment moves on: with every file checked it returns null and
\* the run ends with an error event; otherwise the next file's existence
\* check settles
ResolvePdfAttachment ==
    /\ agPc = "resolve" /\ microtasks = <<>>
    /\ IF fileIndex >= Len(fileIds.items)
       THEN /\ Emit(<<Data("error", NotLocatedMessage), End>>)
            /\ agPc' = "done"
            /\ UNCHANGED <<fileIndex, microtasks>>
       ELSE \E answer \in StorageAnswers :
              /\ agPc' = CASE answer = "exists" -> "validate"
                           [] answer = "keyThrows" -> "rejected"
                           [] OTHER -> "resolve"
              /\ fileIndex' = IF answer \in {"missing", "existsThrows"}
                              THEN fileIndex + 1 ELSE fileIndex
              /\ microtasks' = IF answer = "keyThrows" THEN <<"catch">> ELSE <<>>
              /\ UNCHANGED <<emitted, observed>>
    /\ UNCHANGED <<fileIds, caller, agOutcome, llmResponse>>

\* validateEbmInvoice settles: a rejection, or a throw of the formatting
\* before or after the 'sources' event, is answered by the catch and finally
\* blocks; otherwise the run goes on to await llm.invoke
ValidateSettles ==
    /\ agPc = "validate" /\ microtasks = <<>>
    /\ \/ /\ Emit(<<Data("error", ValidationFailedMessage), End>>)
          /\ agPc' = "done"
          /\ UNCHANGED agOutcome
       \/ \E headline \in Headlines :
            /\ agOutcome' = Str(<<headline>>)
            /\ \/ /\ Emit(<<Data("sources", buildValidationSources(headline))>>)
                  /\ agPc' = "narrate"
               \/ /\ Emit(<<Data("sources", buildValidationSources(headline)),
                            Data("error", ValidationFailedMessage), End>>)
                  /\ agPc' = "done"
    /\ UNCHANGED <<fileIds, fileIndex, caller, microtasks, llmResponse>>

\* llm.invoke settles: the 'response' event carries the narrative or the
\* formatter's text, and the finally block emits 'end'
LlmSettles ==
    /\ agPc = "narrate" /\ microtasks = <<>>
    /\ \E response \in LlmResponses :
         /\ llmResponse' = response
         /\ Emit(<<Data("response", MessageText(agOutcome.s[1], response)), End>>)
    /\ agPc' = "done"
    /\ UNCHANGED <<fileIds, fileIndex, caller, microtasks, agOutcome>>

-----------------------------------------------------------------------------
(* Specifications                                                          *)

vars == <<qrVars, cmpVars, tmVars, vlVars, chVars, prVars, exVars, agVars>>

InitQr == QrInit /\ CmpIdle /\ TmIdle /\ VlIdle /\ ChIdle /\ PrIdle /\ ExIdle /\ AgIdle
NextQr ==
    \/ GetDocument /\ UNCHANGED <<cmpVars, tmVars, vlVars, chVars, prVars, exVars, agVars>>
    \/ RenderPageAtScale /\ UNCHANGED <<cmpVars, tmVars, vlVars, chVars, prVars, exVars, agVars>>
    \/ DecodeRendered /\ UNCHANGED <<cmpVars, tmVars, vlVars, chVars, prVars, exVars, agVars>>
    \/ FinishDecode /\ UNCHANGED <<cmpVars, tmVars, vlVars, chVars, prVars, exVars, agVars>>
SpecQr == InitQr /\ [][NextQr]_vars

InitCompare == CmpInit /\ QrIdle /\ TmIdle /\ VlIdle /\ ChIdle /\ PrIdle /\ ExIdle /\ AgIdle
NextCompare == BuildComparison /\ UNCHANGED <<qrVars, tmVars, vlVars, chVars, prVars, exVars, agVars>>
SpecCompare == InitCompare /\ [][NextCompare]_vars

InitMatch == TmInit /\ QrIdle /\ CmpIdle /\ VlIdle /\ ChIdle /\ PrIdle /\ ExIdle /\ AgIdle
NextMatch == MatchesInput /\ UNCHANGED <<qrVars, cmpVars, vlVars, chVars, prVars, exVars, agVars>>
SpecMatch == InitMatch /\ [][NextMatch]_vars

InitValidate == VlInit /\ QrIdle /\ CmpIdle /\ TmIdle /\ ChIdle /\ PrIdle /\ ExIdle /\ AgIdle
NextValidate ==
    \/ LoadTextSnapshot /\ UNCHANGED <<qrVars, cmpVars, tmVars, chVars, prVars, exVars, agVars>>
    \/ SelectTemplateForSnapshot /\ UNCHANGED <<qrVars, cmpVars, tmVars, chVars, prVars, exVars, agVars>>
    \/ ExtractTextWithTemplate /\ UNCHANGED <<qrVars, cmpVars, tmVars, chVars, prVars, exVars, agVars>>
    \/ Download /\ UNCHANGED <<qrVars, cmpVars, tmVars, chVars, prVars, exVars, agVars>>
    \/ DecodeQrCodes /\ UNCHANGED <<qrVars, cmpVars, tmVars, chVars, prVars, exVars, agVars>>
    \/ ParseEbmQrPayload /\ UNCHANGED <<qrVars, cmpVars, tmVars, chVars, prVars, exVars, agVars>>
    \/ AttemptRraQrEnrichment /\ UNCHANGED <<qrVars, cmpVars, tmVars, chVars, prVars, exVars, agVars>>
    \/ FetchSettles /\ UNCHANGED <<qrVars, cmpVars, tmVars, chVars, prVars, exVars, agVars>>
    \/ MergeQrPayload /\ UNCHANGED <<qrVars, cmpVars, tmVars, chVars, prVars, exVars, agVars>>
    \/ ReturnOutcome /\ UNCHANGED <<qrVars, cmpVars, tmVars, chVars, prVars, exVars, agVars>>
SpecValidate == InitValidate /\ [][NextValidate]_vars

\* the statements of validateEbmInvoice a run can be at
RunPositions ==
    {"loadSnapshot", "selectTemplate", "extract", "download", "decode", "parse",
     "enrich", "fetch", "merge", "finish", "returned", "threw"}
\* The run moves on from a statement whose continuation is ready.  At "fetch"
\* the run awaits fetch(url.toString()), which is called without a timeout or
\* an abort signal: when it settles is up to the endpoint and the network.
RunContinues ==
    /\ runPc \notin {"fetch", "returned", "threw"}
    /\ runPc' \in RunPositions
\* validateEbmInvoice under a scheduler that runs every ready continuation
SpecValidateLive == InitValidate /\ [][NextValidate]_vars /\ WF_runPc(RunContinues)

InitCache == ChInit /\ QrIdle /\ CmpIdle /\ TmIdle /\ VlIdle /\ PrIdle /\ ExIdle /\ AgIdle
NextCache ==
    \/ (\E c \in Callers : CallLoadEbmTemplates(c)) /\ UNCHANGED <<qrVars, cmpVars, tmVars, vlVars, prVars, exVars, agVars>>
    \/ (\E c \in Callers : LoadCompletes(c)) /\ UNCHANGED <<qrVars, cmpVars, tmVars, vlVars, prVars, exVars, agVars>>
    \/ (\E c \in Callers : LoadRejects(c)) /\ UNCHANGED <<qrVars, cmpVars, tmVars, vlVars, prVars, exVars, agVars>>
    \/ (\E c \in Callers : CallerGoesOn(c)) /\ UNCHANGED <<qrVars, cmpVars, tmVars, vlVars, prVars, exVars, agVars>>
    \/ ResetTemplateCache /\ UNCHANGED <<qrVars, cmpVars, tmVars, vlVars, prVars, exVars, agVars>>
SpecCache == InitCache /\ [][NextCache]_vars

InitParse == PrInit /\ QrIdle /\ CmpIdle /\ TmIdle /\ VlIdle /\ ChIdle /\ ExIdle /\ AgIdle
NextParse == ParseQrText /\ UNCHANGED <<qrVars, cmpVars, tmVars, vlVars, chVars, exVars, agVars>>
SpecParse == InitParse /\ [][NextParse]_vars

InitExtract == ExInit /\ QrIdle /\ CmpIdle /\ TmIdle /\ VlIdle /\ ChIdle /\ PrIdle /\ AgIdle
NextExtract == ExtractField /\ UNCHANGED <<qrVars, cmpVars, tmVars, vlVars, chVars, prVars, agVars>>
SpecExtract == InitExtract /\ [][NextExtract]_vars

InitAgent == AgInit /\ QrIdle /\ CmpIdle /\ TmIdle /\ VlIdle /\ ChIdle /\ PrIdle /\ ExIdle
NextAgent ==
    \/ SearchAndAnswer /\ UNCHANGED <<qrVars, cmpVars, tmVars, vlVars, chVars, prVars, exVars>>
    \/ RunQueuedCallback /\ UNCHANGED <<qrVars, cmpVars, tmVars, vlVars, chVars, prVars, exVars>>
    \/ CallerAttachesListeners /\ UNCHANGED <<qrVars, cmpVars, tmVars, vlVars, chVars, prVars, exVars>>
    \/ CatchUnexpected /\ UNCHANGED <<qrVars, cmpVars, tmVars, vlVars, chVars, prVars, exVars>>
    \/ ResolvePdfAttachment /\ UNCHANGED <<qrVars, cmpVars, tmVars, vlVars, chVars, prVars, exVars>>
    \/ ValidateSettles /\ UNCHANGED <<qrVars, cmpVars, tmVars, vlVars, chVars, prVars, exVars>>
    \/ LlmSettles /\ UNCHANGED <<qrVars, cmpVars, tmVars, vlVars, chVars, prVars, exVars>>
SpecAgent == InitAgent /\ [][NextAgent]_vars

-----------------------------------------------------------------------------
(* Claims about EbmTemplate.matchesInput                                   *)

\* the keyword normalized with the same template options as the text
NormalizedLikeText(keyword) == prepareInput(definition.options, keyword)

\* every keyword and excludeKeyword of the template is still non-empty when
\* normalized like the text
KeywordsStayVisible ==
    /\ \A i \in 1..Len(definition.keywords) :
          NormalizedLikeText(definition.keywords[i]) # <<>>
    /\ \A i \in 1..Len(definition.excludeKeywords) :
          NormalizedLikeText(definition.excludeKeywords[i]) # <<>>

\* C3: once matchesInput(text) has returned, its value is true exactly when
\* every keyword of the template, normalized with the same options as the
\* text, is a substring of the normalized text and no excludeKeyword,
\* normalized the same way, is one. Stated for the templates whose keywords
\* all stay non-empty under that normalization.
C3_MatchIffKeywordsInNormalizedText ==
    (tmPc = "done" /\ KeywordsStayVisible) =>
        (matched <=>
            /\ \A i \in 1..Len(definition.keywords) :
                  Includes(NormalizedLikeText(content),
                           NormalizedLikeText(definition.keywords[i]))
            /\ \A i \in 1..Len(definition.excludeKeywords) :
                  ~Includes(NormalizedLikeText(content),
                            NormalizedLikeText(definition.excludeKeywords[i])))

\* the keyword has a character that is not white space
HasVisibleChar(keyword) == \E i \in 1..Len(keyword) : ~IsWhite(keyword[i])

\* C4: once matchesInput(text) has returned for a template one of whose
\* excludeKeywords occurs in the document text, its value is false. Stated
\* for templates without replacements and for excludeKeywords that have a
\* visible character.
C4_ExcludeKeywordInTextStopsMatch ==
    (/\ tmPc = "done"
     /\ definition.options.replace = <<>>
     /\ \E i \in 1..Len(definition.excludeKeywords) :
           /\ HasVisibleChar(definition.excludeKeywords[i])
           /\ Includes(content, definition.excludeKeywords[i]))
        => matched = FALSE

\* prepareInput with the substitutions applied first: the substitutions in
\* list order, then white space, accents and letter case
ReplacementsFirst(options, input) ==
    LET replaced == applyReplacements(input, options.replace)
        spaced == IF options.removeWhitespace
                  THEN RemoveWhitespace(replaced)
                  ELSE normalizeWhitespace(replaced)
        plain == IF options.removeAccents THEN RemoveAccents(spaced) ELSE spaced
    IN  IF options.lowercase THEN ToLowerCase(plain) ELSE plain

\* C27: prepareInput applies the template's (pattern, replacement)
\* substitutions, in list order, to the input before white space is collapsed
\* or removed, accents are stripped and letters are lower-cased.
C27_ReplacementsAppliedFirst ==
    tmPc = "done" =>
        preparedContent = ReplacementsFirst(definition.options, content)

-----------------------------------------------------------------------------
(* Claims about validateEbmInvoice                                         *)

\* the names of the fields the selected template defines (none without one)
TemplateFieldNames ==
    IF IsNullish(templates) THEN {} ELSE SeqToSet(templates.fieldNames)

\* the canonical field a field name maps to, Null when it maps to none
MapsTo(fieldName) == FieldMappingGet(ToLowerCase(fieldName))

\* the comparisons of the result made for that field name / canonical field
ComparisonsNamed(fieldName) ==
    {i \in 1..Len(comparisons) : comparisons[i].field = fieldName}
ComparisonsCovering(qrKey) ==
    {i \in 1..Len(comparisons) : MapsTo(comparisons[i].field) = qrKey}

\* C5: when a run that parsed a QR payload has returned, result.matches holds
\* exactly one comparison for each field of the template that has a canonical
\* mapping and exactly one for each of the seven canonical fields no template
\* field maps to, and nothing else; so every canonical field is covered.
C5_ComparisonsCoverCanonicalFields ==
    (runPc = "returned" /\ ~IsNullish(parsedPayload)) =>
        /\ \A n \in TemplateFieldNames :
              MapsTo(n) # Null => Cardinality(ComparisonsNamed(n)) = 1
        /\ \A k \in SeqToSet(CanonicalKeys) :
              (~\E n \in TemplateFieldNames : MapsTo(n) = k)
                  => Cardinality(ComparisonsCovering(k)) = 1
        /\ \A k \in SeqToSet(CanonicalKeys) : ComparisonsCovering(k) # {}
        /\ Len(comparisons) =
              Cardinality({n \in TemplateFieldNames : MapsTo(n) # Null})
              + Cardinality({k \in SeqToSet(CanonicalKeys) :
                                ~\E n \in TemplateFieldNames : MapsTo(n) = k})

\* the QR text populated the canonical field: an amount that is a number (0
\* included), any other field that is a non-empty string
PopulatedByQr(qrKey) ==
    IF qrKey \in AmountKeys THEN ~IsNullish(parsedPayload[qrKey])
    ELSE Truthy(parsedPayload[qrKey])

\* mergeQrPayload has just returned
JustMerged == runPc = "finish" /\ ~IsNullish(parsedPayload)

\* C6: after the enrichment was merged, every canonical field the QR text
\* populated (totalAmount 0 included) still has the value parsed from the QR
\* text; a field whose value changed was empty and now has the enrichment's
\* value; an 'additional' entry the QR text provided is kept.
C6_EnrichmentFillsOnlyEmptyFields ==
    JustMerged =>
        /\ \A k \in SeqToSet(CanonicalKeys) :
              /\ PopulatedByQr(k) => qrPayload[k] = parsedPayload[k]
              /\ qrPayload[k] # parsedPayload[k] =>
                    /\ ~PopulatedByQr(k)
                    /\ ~IsNullish(enrichment)
                    /\ qrPayload[k] = enrichment[k]
        /\ \A a \in AdditionalKeys :
              ~IsNullish(parsedPayload.additional[a]) =>
                  qrPayload.additional[a] = parsedPayload.additional[a]

\* a merge in which the receipt page disagrees with a total of 0 and an MRC
\* from the QR text, and states a TIN the QR text lacks
C6_Witness ==
    /\ JustMerged
    /\ ~IsNullish(enrichment)
    /\ parsedPayload.totalAmount = Num(0)
    /\ enrichment.totalAmount # Undefined
    /\ enrichment.totalAmount # Num(0)
    /\ qrPayload.totalAmount = Num(0)
    /\ IsNullish(parsedPayload.tin)
    /\ ~IsNullish(enrichment.tin)
    /\ qrPayload.tin = enrichment.tin

\* C10: validateEbmInvoice never ends by throwing; every run that ends
\* returns an outcome.
C10_NeverThrows == runPc # "threw"

\* the file is a PDF: file.fileExtension.toLowerCase() === 'pdf'
IsPdf == ToLowerCase(fileExtension) = <<"p", "d", "f">>
\* the run returned after the snapshot loaded and no template matched it
ReturnedWithoutTemplate ==
    /\ runPc = "returned"
    /\ ~IsNullish(snapshot)
    /\ IsNullish(templates)
\* the download and the decoder succeeded and found a code
QrCodeFound == failures \cap {"download", "decode", "noQrCode"} = {}

\* C11: when the snapshot loads and no template matches, the run records the
\* 'no template matched' error and has no extraction; for a PDF the QR stage
\* still runs: unless the download or the decoder failed or found nothing,
\* the first detection is parsed and result.qrPayload holds it.
C11_NoTemplateSkipsOnlyExtraction ==
    ReturnedWithoutTemplate =>
        /\ \E i \in 1..Len(errors) : errors[i] = "No EBM template matched the invoice text."
        /\ IsNullish(extraction)
        /\ (IsPdf /\ QrCodeFound) =>
              /\ Len(qrDetections) > 0
              /\ parsedPayload = parseEbmQrPayload(qrDetections[1].text)
              /\ ~IsNullish(qrPayload)
              /\ qrPayload.raw = qrDetections[1].text
C11_Witness ==
    /\ ReturnedWithoutTemplate
    /\ IsPdf
    /\ ~IsNullish(qrPayload)
    /\ ~IsNullish(qrPayload.tin)

\* the run returned after the decoder resolved to an empty list
ReturnedWithoutQrCode == runPc = "returned" /\ "noQrCode" \in failures
\* the extraction holds one field for every field of the matched template
ExtractionComplete ==
    /\ ~IsNullish(extraction)
    /\ extraction.templateName = templates.templateName
    /\ DOMAIN extraction.fields = SeqToSet(templates.fieldNames)
\* once extractTextWithTemplate returned, the run leaves the extraction as it is
ExtractionKept == (runPc \notin {"idle", "extract"}) => extraction' = extraction

\* C12: when a PDF yields no QR code, result.qrDetections is empty, errors
\* holds the 'no QR code detected' entry exactly once, no QR payload is
\* parsed, and the extraction of the matched template is returned whole and
\* as extractTextWithTemplate produced it.
C12_NoQrCodeKeepsExtraction ==
    /\ [](ReturnedWithoutQrCode =>
            /\ IsPdf
            /\ qrDetections = <<>>
            /\ Cardinality({i \in 1..Len(errors) :
                    errors[i] = "No QR codes detected in the invoice."}) = 1
            /\ IsNullish(parsedPayload)
            /\ IsNullish(qrPayload)
            /\ (~IsNullish(templates) => ExtractionComplete))
    /\ [][ExtractionKept]_vars
C12_Witness ==
    /\ ReturnedWithoutQrCode
    /\ ~IsNullish(templates)
    /\ ExtractionComplete
    /\ \E n \in DOMAIN extraction.fields : ~IsNullish(extraction.fields[n].value)

\* C13: when the file extension is not 'pdf' in any letter case, the run
\* records the unsupported-file-type error, the decoder is never invoked, and
\* the result has no QR payload, no QR detection and no field comparison.
C13_NonPdfSkipsQrComparison ==
    (runPc = "returned" /\ ~IsPdf) =>
        /\ \E i \in 1..Len(errors) :
              errors[i] = "QR validation currently supports PDF invoices only."
        /\ failures \cap {"download", "decode", "noQrCode", "enrichment"} = {}
        /\ qrDetections = <<>>
        /\ IsNullish(parsedPayload)
        /\ IsNullish(qrPayload)
        /\ comparisons = <<>>

\* the result lists a comparison of status 'mismatch' or 'missing'
SomeComparisonFails ==
    \E i \in 1..Len(comparisons) : comparisons[i].status \in {"mismatch", "missing"}

\* C14: the headline of a returned result is the 'validated' headline iff the
\* run recorded no error and no comparison is 'mismatch' or 'missing';
\* otherwise it is the 'issues found' headline, never the 'incomplete' one.
C14_HeadlineByErrorsAndStatuses ==
    runPc = "returned" =>
        /\ summary.headline = "Invoice details match QR payload."
              <=> (Len(errors) = 0 /\ ~SomeComparisonFails)
        /\ summary.headline \in {"Invoice details match QR payload.",
                                  "Invoice validation reported issues."}
        /\ summary.headline # "EBM validation incomplete."
C14_Witness ==
    /\ runPc = "returned"
    /\ Len(errors) = 0
    /\ comparisons # <<>>
    /\ \E i \in 1..Len(comparisons) : comparisons[i].status = "match"
    /\ ~SomeComparisonFails
    /\ summary.headline = "Invoice details match QR payload."

\* selectTemplateForSnapshot has scanned its candidates and returned
Scanned ==
    /\ runPc \notin {"idle", "loadSnapshot", "selectTemplate", "threw"}
    /\ ~IsNullish(snapshot)
\* the positions of the candidates whose matchesInput accepts the content
Accepting ==
    {i \in 1..Len(candidates) :
        TemplateAccepts(candidates[i], snapshot.content) = "matches"}
\* the text of the scenario: it contains 'EBM INVOICE' and not 'PROFORMA'
EbmInvoiceText ==
    /\ Includes(snapshot.content, <<"E", "B", "M", " ", "I", "N", "V", "O", "I", "C", "E">>)
    /\ ~Includes(snapshot.content, <<"P", "R", "O", "F", "O", "R", "M", "A">>)
RequiresProforma(template) ==
    \E k \in 1..Len(template.keywords) : template.keywords[k] = <<"P", "R", "O", "F", "O", "R", "M", "A">>

\* C16: selectTemplateForSnapshot returns the first candidate, in load order,
\* whose matchesInput accepts the snapshot content; when none accepts it
\* returns no template and the run records an error string without throwing
\* (a run only throws before any candidate is scanned).  A text with
\* 'EBM INVOICE' and without 'PROFORMA' is accepted by the template that
\* requires the first and excludes the second, which is selected when it is
\* first in load order, and never selects a template requiring 'PROFORMA'.
C16_FirstMatchingInLoadOrder ==
    /\ Scanned =>
          /\ IF Accepting = {}
             THEN /\ IsNullish(templates)
                  /\ \E i \in 1..Len(errors) :
                        errors[i] = "No EBM template matched the invoice text."
             ELSE /\ \E i \in Accepting :
                        /\ \A j \in Accepting : i <= j
                        /\ templates = candidates[i]
          /\ EbmInvoiceText =>
                /\ IsNullish(templates) \/ ~RequiresProforma(templates)
                /\ TemplateAccepts(TemplateA, snapshot.content) = "matches"
                /\ (candidates # <<>> /\ Head(candidates) = TemplateA) => templates = TemplateA
    /\ runPc = "threw" => candidates = <<>>
C16_Witness ==
    /\ Scanned
    /\ EbmInvoiceText
    /\ Cardinality(Accepting) > 1
    /\ \E i \in 1..Len(candidates) : RequiresProforma(candidates[i])
    /\ templates = TemplateA

\* the receipt lookup of the run could not be completed: the QR text is not a
\* URL of a recognised host, or the fetch rejected, answered with a status
\* that is not ok, or returned a page without a receipt
LookupNotCompleted ==
    /\ ~IsNullish(parsedPayload)
    /\ \/ ~HasRraHostname(parsedPayload.raw)
       \/ failures \cap LookupFailures # {}
\* a step of the receipt lookup or of the merge leaves errors as it was
LookupAddsNoError ==
    runPc \in {"enrich", "fetch", "merge"} => errors' = errors

\* C21: when the receipt lookup cannot be completed (QR text not a URL, host
\* not recognised, response not ok, network exception, page without receipt)
\* the run goes on to the merge and leaves it with the QR payload exactly as
\* parsed from the QR text, and no step of the lookup or of the merge adds an
\* entry to errors.
C21_FailedLookupKeepsParsedPayload ==
    /\ []((JustMerged /\ LookupNotCompleted)
            => (IsNullish(enrichment) /\ qrPayload = parsedPayload))
    /\ [][LookupAddsNoError]_vars
\* a run whose fetch of a recognised receipt URL rejected and whose QR text
\* carried a TIN
C21_Witness ==
    /\ JustMerged
    /\ HasRraHostname(parsedPayload.raw)
    /\ "fetchRejected" \in failures
    /\ Truthy(parsedPayload.tin)
    /\ qrPayload = parsedPayload

\* C30: the canonical fields of result.qrPayload do not depend on the
\* invoice text: they are determined by the decoded QR text and the response
\* of the receipt lookup (what parseEbmQrPayload returned, merged with the
\* enrichment), whatever the text snapshot and the extraction are, so that a
\* 'match' compares a QR-derived value with a value of the text.
C30_QrPayloadIndependentOfText ==
    (runPc = "returned" /\ ~IsNullish(qrPayload)) =>
        \A k \in SeqToSet(CanonicalKeys) :
            qrPayload[k] = mergeQrPayload(parsedPayload, enrichment)[k]

\* validateEbmInvoice has returned its outcome
RunReturned == runPc = "returned"
\* the run awaits the fetch of the receipt page
AwaitingFetch == runPc = "fetch"

\* C23: the receipt fetch is bounded by a timeout: a run that awaits a fetch
\* whose endpoint never responds still eventually returns an outcome.
C23_FetchIsBounded == AwaitingFetch ~> RunReturned

-----------------------------------------------------------------------------
(* Claims about the template cache (checked under SpecCache)               *)

\* C15: between two calls of resetTemplateCache the template directory is
\* read and parsed by at most one load that does not fail, also when callers
\* call loadEbmTemplates before the first load has completed, and the callers
\* that have their answer hold the same list.
C15_SingleLoadBetweenResets ==
    /\ directoryReads <= 1
    /\ \A c, d \in sinceReset :
          (loadPc[c] = "returned" /\ loadPc[d] = "returned") => received[c] = received[d]

-----------------------------------------------------------------------------
(* Claims about parseEbmQrPayload (checked under SpecParse)                *)

\* the canonical fields of a payload
CanonicalFields(payload) == [k \in SeqToSet(CanonicalKeys) |-> payload[k]]

\* the canonical fields parseEbmQrPayload yields for the entries of the
\* source when they are written in the encoding `form`
ParsedFrom(form) ==
    CanonicalFields(parseEbmQrPayload(Encode(form, prSource.pairs, prSource.sep, prSource.delim)))

\* no value of the source holds a character the token form splits on
DelimiterFree ==
    \A i \in 1..Len(prSource.pairs) :
        \A n \in 1..Len(StringOf(prSource.pairs[i][2])) :
            StringOf(prSource.pairs[i][2])[n] \notin Delimiters

\* C17: a set of canonical field values written as a JSON object, as URL
\* query parameters, as URL fragment parameters and as 'key:value' tokens
\* parses to the same seven canonical fields in all four encodings.
C17_SameFieldsInEveryEncoding ==
    (prPc = "done" /\ prSource.kind = "fieldSet") =>
        \A form \in Encodings : ParsedFrom(form) = CanonicalFields(prPayload)

\* the value the last entry of the source written under a key of `field`
\* gives that field; undefined when no entry is written under such a key
LastEntryFor(field) ==
    LET hits == {i \in 1..Len(prSource.pairs) :
                    CanonicalFieldOf(normalizeKey(prSource.pairs[i][1])) = field}
    IN  IF hits = {} THEN Undefined
        ELSE AssignedValue(field,
                 Str(StringOf(prSource.pairs[CHOOSE i \in hits : \A j \in hits : j <= i][2])))

\* the QR text of the scenario
ScenarioText == prText.chars =
    <<"t", "i", "n", ":", "1", "2", "3", "4", "5", "6", "7", "8", "9", ";", "i", "n", "v", "o", "i", "c", "e", ":", "I", "N", "V", "-", "0", "0", "7", ";", "t", "o", "t", "a", "l", ":", "5", "0", "0", "0">>

\* C18: for 'key:value' tokens separated by delimiters, a canonical field is
\* set only when a token is written under a key recognised for it, and (for
\* values without a delimiter character) it holds the value of the last such
\* token as assignKeyValue normalises it; the
\* text 'tin:123456789;invoice:INV-007;total:5000' yields tin '123456789',
\* invoiceNumber 'INV-007', totalAmount 5000 and nothing else.
C18_TokensSetTheirFieldsOnly ==
    (prPc = "done" /\ prSource.form = "tokens") =>
        /\ \A k \in SeqToSet(CanonicalKeys) :
              /\ ~IsNullish(prPayload[k]) =>
                    \E i \in 1..Len(prSource.pairs) :
                        CanonicalFieldOf(normalizeKey(prSource.pairs[i][1])) = k
              /\ DelimiterFree => prPayload[k] = LastEntryFor(k)
        /\ ScenarioText =>
              /\ prPayload.tin = Str(<<"1", "2", "3", "4", "5", "6", "7", "8", "9">>)
              /\ prPayload.invoiceNumber = Str(<<"I", "N", "V", "-", "0", "0", "7">>)
              /\ prPayload.totalAmount = Num(50000)
              /\ \A k \in {"buyerTin", "issueDate", "vatAmount", "currency"} :
                    prPayload[k] = Undefined
C18_Witness ==
    /\ prPc = "done"
    /\ ScenarioText
    /\ prPayload.totalAmount = Num(50000)

-----------------------------------------------------------------------------
(* Claims about extractField (checked under SpecExtract)                   *)

\* the pattern whose matches the field was built from: the first pattern
\* with a result
UsedPattern ==
    exPatterns[CHOOSE i \in 1..Len(exPatterns) :
                  /\ collectMatchesForPattern(exPatterns[i], FieldNameExplored) # <<>>
                  /\ \A j \in 1..(i - 1) :
                        collectMatchesForPattern(exPatterns[j], FieldNameExplored) = <<>>]

\* the field has group 'sum' and its pattern found matches in the page texts
SumOverPageMatches ==
    /\ exPc = "done"
    /\ exConfig.group = "sum"
    /\ \E i \in 1..Len(exPatterns) :
          collectMatchesForPattern(exPatterns[i], FieldNameExplored) # <<>>
    /\ MatchesOfPages(UsedPattern.pages, FieldNameExplored, 1) # <<>>

\* C19: for a field with group 'sum' the resolved value is the sum of the
\* coerced numeric values of every match the pattern finds in the page
\* texts.
C19_SumTotalsEveryMatch ==
    SumOverPageMatches =>
        exField.value =
            Num(SumOfNumbers(coerceMatchValues(
                    MatchesOfPages(UsedPattern.pages, FieldNameExplored, 1), exConfig)))

\* the texts the patterns of the field capture in the page texts or in the
\* whole document
TextsIn(found) ==
    UNION { {found[k].whole}
            \cup {found[k].groups[g].value.s :
                     g \in {h \in 1..Len(found[k].groups) : IsString(found[k].groups[h].value)}} :
            k \in 1..Len(found) }
TextsCaptured ==
    UNION { TextsIn(exPatterns[i].pages[1]) \cup TextsIn(exPatterns[i].pages[2])
            \cup TextsIn(exPatterns[i].doc) : i \in 1..Len(exPatterns) }

\* C22: every entry of the matches of an extracted field has a raw form that
\* is text captured from the snapshot and, beside it, the normalized form of
\* that text, whatever the type coercion and the group policy of the field.
C22_MatchesKeepRawAndNormalized ==
    exPc = "done" =>
        \A i \in 1..Len(exField.matches) :
            /\ IsString(exField.matches[i].raw)
            /\ exField.matches[i].raw.s \in TextsCaptured
            /\ exField.matches[i].normalized = normalizeMatch(exField.matches[i].raw.s)

\* the candidates of the matches `found` of a page (undefined for the whole
\* document), in order, with the page they were found on
CandidatesOn(found, page) ==
    SelectSeq([i \in 1..Len(found) |->
                  [text |-> CandidateOf(found[i], FieldNameExplored).s, page |-> page]],
              LAMBDA e : e.text # <<>>)
OnPages(pattern) == CandidatesOn(pattern.pages[1], 1) \o CandidatesOn(pattern.pages[2], 2)
InDocument(pattern) == CandidatesOn(pattern.doc, Undefined)
\* the entries whose normalized text occurs in no earlier entry, in order
FirstOccurrences(entries) ==
    LET firsts == {i \in 1..Len(entries) :
                      \A j \in 1..(i - 1) :
                          normalizeMatch(entries[j].text) # normalizeMatch(entries[i].text)}
    IN  [k \in 1..Cardinality(firsts) |->
            entries[CHOOSE i \in firsts : Cardinality({j \in firsts : j <= i}) = k]]
\* the pattern is a regular expression that matches on a page or in the document
Yields(pattern) == pattern.valid /\ (OnPages(pattern) # <<>> \/ InDocument(pattern) # <<>>)
\* the matches of the first pattern that yields any: the first occurrences
\* on the pages, or, when no page has a match, in the whole document
ExpectedMatches ==
    IF \A i \in 1..Len(exPatterns) : ~Yields(exPatterns[i]) THEN <<>>
    ELSE LET first == CHOOSE i \in 1..Len(exPatterns) :
                         /\ Yields(exPatterns[i])
                         /\ \A j \in 1..(i - 1) : ~Yields(exPatterns[j])
         IN  IF OnPages(exPatterns[first]) # <<>>
             THEN FirstOccurrences(OnPages(exPatterns[first]))
             ELSE FirstOccurrences(InDocument(exPatterns[first]))
\* the matches of the extracted field, as text and page
FieldMatches ==
    [i \in 1..Len(exField.matches) |->
        [text |-> exField.matches[i].raw.s, page |-> exField.matches[i].pageNumber]]

\* C25: extractField tries the patterns in order and uses the matches of the
\* first pattern that yields any; the matches of a pattern are collected page
\* by page, keeping the first occurrence of each normalized value, and the
\* whole-document text is searched only when no page produced a match.
\* Stated on fields without group policy, whose matches are stored as found.
C25_FirstPatternFirstOccurrences ==
    (exPc = "done" /\ exConfig.group = "none") => FieldMatches = ExpectedMatches
\* the second pattern is used after a fruitless one and finds '20' on both
\* pages and '10' on the second
C25_Witness ==
    /\ exPc = "done"
    /\ exConfig.group = "none"
    /\ Len(exPatterns) = 2
    /\ ~Yields(exPatterns[1])
    /\ exPatterns[2].pages = << <<RegExpMatch(<<"2", "0">>, <<>>)>>,
                                <<RegExpMatch(<<"2", "0">>, <<>>), RegExpMatch(<<"1", "0">>, <<>>)>> >>
    /\ FieldMatches = << [text |-> <<"2", "0">>, page |-> 1], [text |-> <<"1", "0">>, page |-> 2] >>

\* the candidate the pattern's capture groups designate: the first named
\* group when the pattern has named groups, else the first numbered group
\* when it has one, else the entire match; the entire match also when the
\* designated group did not take part
DesignatedCandidate(found) ==
    LET named == SelectSeq(found.groups, LAMBDA g : g.name # "")
        designated == IF named # <<>> THEN named[1]
                      ELSE IF found.groups # <<>> THEN found.groups[1]
                      ELSE Group("", Undefined)
    IN  IF IsNullish(designated.value) THEN found.whole ELSE designated.value.s
\* the field was extracted by one pattern that matched once, on page 1
OneMatchOnPageOne ==
    /\ exPc = "done"
    /\ exConfig.group = "none"
    /\ Len(exPatterns) = 1
    /\ exPatterns[1].valid
    /\ Len(exPatterns[1].pages[1]) = 1
    /\ exPatterns[1].pages[2] = <<>>

\* C26: the candidate extracted from a match is the first named capture group
\* when the pattern has named groups, otherwise the first numbered capture
\* group when the pattern has one, otherwise the entire matched text; when
\* the chosen group did not take part in the match, the entire matched text.
C26_CandidateByGroupPrecedence ==
    OneMatchOnPageOne =>
        IF DesignatedCandidate(exPatterns[1].pages[1][1]) = <<>>
        THEN exField.matches = <<>>
        ELSE /\ Len(exField.matches) = 1
             /\ exField.matches[1].raw = Str(DesignatedCandidate(exPatterns[1].pages[1][1]))

-----------------------------------------------------------------------------
(* Claims about buildComparison (checked under SpecCompare)                *)

\* the QR side has a value: qrValue is neither null nor undefined
QrSideHasValue == ~IsNullish(cmpQrValue)
\* the text side has a value: the field exists and its value, or else its raw
\* text, is neither null/undefined nor the empty string
TextSideValue ==
    IF cmpTextField = Undefined THEN Undefined
    ELSE IF cmpTextField.value # Undefined THEN cmpTextField.value
    ELSE cmpTextField.raw
TextSideHasValue == TextSideValue # Undefined /\ TextSideValue # Str(<<>>)

\* a value an amount comparison can read as a number
ReadsAsNumber(v) == IsNumber(v) \/ (IsString(v) /\ IsNumber(parseAmount(v.s, ".")))

\* C1 as stated: 'unverified' iff neither side has a value, 'missing' iff
\* exactly one side has a value, 'match' or 'mismatch' whenever both have one.
C1_StatusByPresence ==
    cmpPc = "done" =>
        /\ comparison.status = "unverified" <=> (~QrSideHasValue /\ ~TextSideHasValue)
        /\ comparison.status = "missing" <=> (QrSideHasValue # TextSideHasValue)
        /\ (QrSideHasValue /\ TextSideHasValue) => comparison.status \in {"match", "mismatch"}

\* C1 amended: as C1, except that a totalAmount or vatAmount comparison in
\* which both sides have a value but one of them cannot be read as a number
\* is 'missing' as well.
C1_StatusByPresenceOrUnreadableAmount ==
    cmpPc = "done" =>
        LET both == QrSideHasValue /\ TextSideHasValue
            unreadable == /\ both
                          /\ cmpKey \in AmountKeys
                          /\ ~(ReadsAsNumber(cmpQrValue) /\ ReadsAsNumber(TextSideValue))
        IN  /\ comparison.status = "unverified" <=> (~QrSideHasValue /\ ~TextSideHasValue)
            /\ comparison.status = "missing" <=>
                    ((QrSideHasValue # TextSideHasValue) \/ unreadable)
            /\ (both /\ ~unreadable) => comparison.status \in {"match", "mismatch"}

\* C1 witness: an amount comparison whose two sides both have a value was
\* reported 'missing'.
C1_Witness ==
    /\ cmpPc = "done"
    /\ cmpKey \in AmountKeys
    /\ QrSideHasValue
    /\ TextSideHasValue
    /\ comparison.status = "missing"

\* C2: a totalAmount or vatAmount comparison of two numbers a and b is 'match'
\* when |a - b| <= 1 and 'mismatch' when |a - b| > 1 (10 tenths).
C2_AmountWithinTolerance ==
    (cmpPc = "done" /\ cmpKey \in AmountKeys
        /\ IsNumber(cmpQrValue) /\ IsNumber(TextSideValue)) =>
        LET a == cmpQrValue.n
            b == TextSideValue.n
            distance == IF a >= b THEN a - b ELSE b - a
        IN  comparison.status = IF distance <= 10 THEN "match" ELSE "mismatch"

\* C2 witness: QR total 1000 against text total 1000.6 was compared and is 'match'.
C2_Witness ==
    /\ cmpPc = "done"
    /\ cmpKey = "totalAmount"
    /\ cmpQrValue = Num(10000)
    /\ TextSideValue = Num(10006)
    /\ comparison.status = "match"

\* the digit sequence of a value, as the comparison reads it (String(value))
DigitsOfValue(v) == SelectSeq(StringOf(v), IsDigit)
\* buildComparison returned for a TIN field that both sides provide
TinCompared ==
    /\ cmpPc = "done"
    /\ cmpKey \in {"tin", "buyerTin"}
    /\ ~IsNullish(cmpQrValue)
    /\ ~IsNullish(TextSideValue)
    /\ TextSideValue # Str(<<>>)

\* C20: the TIN and buyer-TIN comparison depends only on the digits of the
\* two values: when the QR value and the text value have the same digit
\* sequence the status is 'match' whatever punctuation or spacing they
\* contain, and when their digit sequences differ it is 'mismatch'.
C20_TinComparedByDigits ==
    TinCompared =>
        comparison.status =
            IF DigitsOfValue(cmpQrValue) = DigitsOfValue(TextSideValue)
            THEN "match" ELSE "mismatch"
\* a TIN written with punctuation in the invoice text matches the QR's digits
C20_Witness ==
    /\ TinCompared
    /\ cmpQrValue = Str(<<"1", "2", "3">>)
    /\ TextSideValue = Str(<<"1", "-", "2", "3">>)
    /\ comparison.status = "match"

-----------------------------------------------------------------------------
(* Claims about decodeQrCodesFromPdf (checked under SpecQr)                *)

\* A step that starts a page/scale attempt (renderPageAtScale is called).
AttemptStarts == qrPc = "render" /\ attempts' = attempts + 1
\* A step in which an attempt ends in the catch block.
AttemptThrows ==
    /\ lastOutcome' = "threw"
    /\ AttemptStarts \/ qrPc = "decode"

CodesInPageOrder ==
    \A i \in 1..Len(codes) : \A j \in 1..Len(codes) :
        i < j => codes[i].pageNumber < codes[j].pageNumber

\* C7: once some scale of a page has yielded a decoded text, no further scale
\* of that page is rendered, and every page contributes at most one detection,
\* so that the detections are in strictly increasing page order.
C7_StopsAfterFirstDecode ==
    /\ [][AttemptStarts => pageIndex \notin decodedPages]_qrVars
    /\ []CodesInPageOrder

\* C8: with unique = true no two detections carry the same text.
C8_UniqueTexts ==
    unique =>
        \A i \in 1..Len(codes) : \A j \in 1..Len(codes) :
            i # j => codes[i].text # codes[j].text

\* C8 witness: with unique = true a text decoded again on a later page was
\* discarded and the run finished.
C8_Witness ==
    /\ unique
    /\ qrPc = "resolved"
    /\ Len(codes) >= 1
    /\ Cardinality(decodedPages) > Len(codes)

\* The page/scale attempts of a run in which nothing stops a scale loop early.
AllAttempts ==
    Len(scales) * (IF numPages <= maxPages THEN numPages ELSE maxPages)

\* C9: an exception in one page/scale attempt is handled as "no code at this
\* scale": the run goes on with the next scale or page and records nothing for
\* the attempt; once the document is open the call never rejects, and when no
\* page yields a code it resolves to the empty list after trying every scale
\* of every page.
C9_AttemptErrorsAreSkipped ==
    /\ [][AttemptThrows =>
            /\ qrPc' # "rejected"
            /\ codes' = codes
            /\ LET n == NextAttempt(pageIndex, scaleIdx) IN
               <<qrPc', pageIndex', scaleIdx'>> = <<n.pc, n.page, n.scale>>]_qrVars
    /\ [](qrPc = "rejected" => pageIndex = 0)
    /\ []((qrPc = "resolved" /\ decodedPages = {}) =>
            (codes = <<>> /\ attempts = AllAttempts))

\* C9 witness: the last attempt of a run threw, no page yielded a code, and
\* the call resolved to the empty list.
C9_Witness ==
    /\ qrPc = "resolved"
    /\ lastOutcome = "threw"
    /\ decodedPages = {}
    /\ codes = <<>>
    /\ attempts = AllAttempts
    /\ attempts > 1

\* C24: after every page/scale attempt (a code was decoded, no code was
\* found, rendering or decoding threw) the canvas of the attempt has been
\* released before the next attempt starts: at most one canvas is live at any
\* time, and none is live when an attempt starts or when the function returns.
C24_CanvasReleasedAfterAttempt ==
    /\ liveCanvases <= 1
    /\ qrPc \in {"render", "finish", "resolved"} => liveCanvases = 0


-----------------------------------------------------------------------------
(* Claims about EbmValidatorAgent.searchAndAnswer                          *)

\* C28: the emitter of a call emits exactly one 'end' event and no 'data'
\* event after it, on every path of the run: an 'end' is always the last
\* event emitted so far, a finished run has emitted one, and a run that has
\* emitted one is finished.
C28_OneEndAndNothingAfter ==
    /\ \A i \in 1..Len(emitted) : emitted[i].event = "end" => i = Len(emitted)
    /\ agPc = "done" <=> (emitted # <<>> /\ emitted[Len(emitted)].event = "end")
\* a run that validated the invoice, whose narrative generation threw, has
\* emitted 'sources', the formatter's 'response' and 'end'
C28_Witness ==
    /\ agPc = "done"
    /\ llmResponse = Rejected
    /\ Len(emitted) = 3
    /\ emitted[1].type = "sources"
    /\ emitted[2] = Data("response", formatValidationMessage(agOutcome.s[1]))
    /\ emitted[3] = End

\* C29: every 'data' and 'end' event is emitted only after the caller
\* awaiting searchAndAnswer holds the emitter and has attached its
\* listeners, so the caller's listeners receive every event emitted.
C29_CallerObservesEveryEvent == observed = emitted

=============================================================================
